---- MODULE Spec2Model ----
(***************************************************************************)
(* A model of the checkpoint indexing pipeline of sui-indexer:             *)
(*   handlers/checkpoint_handler_v2.rs  (CheckpointHandler, the commit     *)
(*                                       task, InMemObjectCache,           *)
(*                                       TxChangesProcessor)               *)
(*   store/pg_indexer_store_v2.rs       (PgIndexerStoreV2)                 *)
(*   store/indexer_store_v2.rs          (TemporaryCheckpointStoreV2, ...)  *)
(*                                                                         *)
(* Option<T> values are sets with at most one element: {} is None and {x}  *)
(* is Some(x).  Vec<T> values are sequences, HashSet/HashMap values are    *)
(* sets (a map is the set of its entries, one per key).                    *)
(***************************************************************************)
EXTENDS Integers, Sequences, FiniteSets, TLC

VARIABLES
    ledger,       \* the chain: object id -> [st, version] after the last checkpoint produced
    stream,       \* the checkpoints the chain has produced so far, stream[c+1] is checkpoint c
    next_checkpoint,  \* the sequence number the checkpoint provider feeds next
    checkpoint_starting_tx_seq_numbers,  \* CheckpointHandler field (a HashMap)
    object_cache, \* CheckpointHandler field (InMemObjectCache)
    handler,      \* position and locals of process_checkpoint
    channel,      \* the bounded channel between the handler and the commit task
    committer,    \* position and locals of start_tx_checkpoint_commit_task
    store,        \* the tables of PgIndexerStoreV2
    skip_db_commit,  \* IndexerConfig.skip_db_commit
    restarts,     \* how many times the process has been restarted
    store_failures,  \* how many Store writes have failed
    trace,        \* what the process has been observed to do since it started
    applied       \* a function of the handler applied on its own: [fn, input, output]

vars == <<ledger, stream, next_checkpoint, checkpoint_starting_tx_seq_numbers,
          object_cache, handler, channel, committer, store, skip_db_commit,
          restarts, store_failures, trace, applied>>

(***************************************************************************)
(* Bounds of the model.                                                    *)
(***************************************************************************)
\* checkpoints 0..MaxCheckpoint are produced by the chain
MaxCheckpoint == 1
\* transactions per checkpoint: 1..MaxTxPerCheckpoint, and on the chain the
\* concurrent pipeline is run on: 1..PipelineTxPerCheckpoint
MaxTxPerCheckpoint == 2
PipelineTxPerCheckpoint == 1
\* events per transaction: 0 or MaxEvents
MaxEvents == 2
\* process restarts (clean or after a crash)
MaxRestarts == 1
\* failing Store writes
MaxStoreFailures == 1
\* the value of CHECKPOINT_QUEUE_SIZE in the environment (default 1000)
QueueSize == 2
\* the value of CHECKPOINT_COMMIT_BATCH_SIZE in the environment (default 5)
BatchSize == 2

\* the entries of a transaction's all_changed_objects, when the recipients are
\* computed on their own: 0..MaxChangedObjects
MaxChangedObjects == 3

\* the objects of a checkpoint, when the latest objects are computed on their own:
\* 0..MaxListedObjects snapshots, of versions 1..MaxListedVersion
MaxListedObjects == 3
MaxListedVersion == 3

\* the insert_object calls made on the object cache on its own: 0..MaxInserts
MaxInserts == 3
\* the versions the tasks around the cache lock ask for
MaxCachedVersion == 2

\* object versions: every transaction raises one object's version by one
MaxVersion == (MaxCheckpoint + 1) * MaxTxPerCheckpoint

\* the object and package ids of the chain
ObjectIds == {"A", "B"}
PackageIds == {"P"}
\* the ids of the objects that are dynamic fields
FieldIds == {"F"}
\* the ids of the objects that are dynamic object fields
ObjectFieldIds == {"W"}
\* the names of the modules of a package
ModuleNames == {"m", "n"}
\* the chain the concurrent pipeline is run on
PipelineChain ==
    [ids |-> {"A"}, events |-> {MaxEvents}, txs |-> 1..PipelineTxPerCheckpoint,
     checkpoints |-> MaxCheckpoint, end_of_epoch_data |-> { {} }, store_up |-> {TRUE},
     epoch_event |-> {TRUE}, object_lists |-> {"complete"}]
\* the same chain, read while the Store's reads may fail
RetryChain ==
    [ids |-> {"A"}, events |-> {MaxEvents}, txs |-> 1..PipelineTxPerCheckpoint,
     checkpoints |-> MaxCheckpoint, end_of_epoch_data |-> { {} },
     store_up |-> {TRUE, FALSE}, epoch_event |-> {TRUE}, object_lists |-> {"complete"}]
\* the chain the sequential pipeline is run on
SequentialChain ==
    [ids |-> ObjectIds, events |-> {0, MaxEvents}, txs |-> 1..MaxTxPerCheckpoint,
     checkpoints |-> MaxCheckpoint, end_of_epoch_data |-> { {} }, store_up |-> {TRUE},
     epoch_event |-> {TRUE}, object_lists |-> {"complete"}]
\* the chain the handler runs ahead of the commit task on: one checkpoint more than
\* the channel holds, each of which may be the last of its epoch
AheadChain ==
    [ids |-> {"A"}, events |-> {0}, txs |-> {1}, checkpoints |-> QueueSize,
     end_of_epoch_data |-> { {}, {"EndOfEpochData"} }, store_up |-> {TRUE},
     epoch_event |-> {TRUE}, object_lists |-> {"complete"}]

\* the chain that writes a dynamic object field and the object it points at, in one
\* checkpoint or not
FieldChain ==
    [ids |-> ObjectFieldIds \cup {"A"}, events |-> {0}, txs |-> 1..MaxTxPerCheckpoint,
     checkpoints |-> MaxCheckpoint, end_of_epoch_data |-> { {} }, store_up |-> {TRUE},
     epoch_event |-> {TRUE}, object_lists |-> {"complete"}]

\* a chain whose checkpoints may break what the handler asserts of its input: a
\* checkpoint that closes an epoch may lack the SystemEpochInfoEvent, and the objects
\* of a checkpoint may lack one of the objects its transactions wrote
FatalChain ==
    [ids |-> {"A"}, events |-> {0}, txs |-> 1..MaxTxPerCheckpoint,
     checkpoints |-> MaxCheckpoint, end_of_epoch_data |-> { {}, {"EndOfEpochData"} },
     store_up |-> {TRUE}, epoch_event |-> {TRUE, FALSE},
     object_lists |-> {"complete", "incomplete"}]

\* the chain that publishes a package and writes dynamic fields of its types
PublishChain ==
    [ids |-> FieldIds \cup PackageIds, events |-> {MaxEvents},
     txs |-> 1..MaxTxPerCheckpoint, checkpoints |-> MaxCheckpoint,
     end_of_epoch_data |-> { {} }, store_up |-> {TRUE},
     epoch_event |-> {TRUE}, object_lists |-> {"complete"}]

(***************************************************************************)
(* Sequence helpers.                                                       *)
(***************************************************************************)
RECURSIVE Flatten(_)
Flatten(ss) == IF ss = << >> THEN << >> ELSE Head(ss) \o Flatten(Tail(ss))

Range(s) == { s[i] : i \in 1..Len(s) }

Map(s, F(_)) == [i \in 1..Len(s) |-> F(s[i])]

\* every ordering of the elements of a sequence
Orderings(s) ==
    LET n == Len(s)
        Perms == { p \in [1..n -> 1..n] : \A i, j \in 1..n : p[i] = p[j] => i = j }
    IN  { [i \in 1..n |-> s[p[i]]] : p \in Perms }

(***************************************************************************)
(* The chain.  A transaction acts on one object: it is [op, id, version],  *)
(* version being the version the object is written, wrapped or deleted at, *)
(* and emits `events` events.                                              *)
(***************************************************************************)
Ops == {"create", "mutate", "delete", "wrap", "unwrap", "unwrap_delete"}

ObjectRef(id, version) == [id |-> id, version |-> version]

\* TransactionEffectsAPI, as the handler reads it
all_changed_objects(fx) ==
    IF fx.op \in {"create", "mutate", "unwrap"}
    THEN << ObjectRef(fx.id, fx.version) >> ELSE << >>

deleted(fx) ==
    IF fx.op = "delete" THEN << ObjectRef(fx.id, fx.version) >> ELSE << >>

wrapped(fx) ==
    IF fx.op = "wrap" THEN << ObjectRef(fx.id, fx.version) >> ELSE << >>

unwrapped_then_deleted(fx) ==
    IF fx.op = "unwrap_delete" THEN << ObjectRef(fx.id, fx.version) >> ELSE << >>

\* the versions the transaction read its modified objects at
modified_at_versions(fx) ==
    IF fx.op \in {"mutate", "delete", "wrap"}
    THEN << ObjectRef(fx.id, fx.version - 1) >> ELSE << >>

\* the ModuleId of the module that defines the type of a dynamic field, an Option
type_module(id) ==
    IF id \in FieldIds
    THEN { [package |-> CHOOSE p \in PackageIds : TRUE, name |-> "m"] }
    ELSE {}

\* MoveObjectType::is_dynamic_field and the DynamicFieldType that parse_move_object
\* finds, an Option: {} for an object that is not a dynamic field
dynamic_field_type(id) ==
    IF id \in FieldIds THEN { "DynamicField" }
    ELSE IF id \in ObjectFieldIds THEN { "DynamicObject" }
    ELSE {}

\* the object id parse_move_object finds in a dynamic object field: the id of the
\* object the field points at
pointed_object_id(id) == "A"

\* Object::digest and the type of an object, as far as they tell objects apart
ObjectDigest(o) == <<o.id, o.version>>

ObjectType(id) == [type_of |-> id]

GenesisLedger ==
    [id \in ObjectIds \cup PackageIds \cup FieldIds \cup ObjectFieldIds |->
        [st |-> "none", version |-> 0]]

ValidTxs(l, u) ==
    { t \in [op : Ops, id : u.ids, version : 1..MaxVersion, events : u.events] :
        /\ t.version = l[t.id].version + 1
        /\ t.id \in PackageIds => t.op = "create"
        /\ \A m \in type_module(t.id) : l[m.package].st = "live"
        /\ CASE t.op = "create" -> l[t.id].st = "none"
             [] t.op \in {"mutate", "delete", "wrap"} -> l[t.id].st = "live"
             [] OTHER -> l[t.id].st = "wrapped" }

ApplyTx(l, t) ==
    [l EXCEPT ![t.id] =
        [st |-> CASE t.op \in {"create", "mutate", "unwrap"} -> "live"
                  [] t.op = "wrap" -> "wrapped"
                  [] OTHER -> "deleted",
         version |-> t.version]]

RECURSIVE ApplyTxs(_, _)
ApplyTxs(l, txs) == IF txs = << >> THEN l ELSE ApplyTxs(ApplyTx(l, Head(txs)), Tail(txs))

RECURSIVE TxRuns(_, _, _)
TxRuns(l, u, n) ==
    IF n = 0 THEN { << >> }
    ELSE UNION { { <<t>> \o r : r \in TxRuns(ApplyTx(l, t), u, n - 1) } : t \in ValidTxs(l, u) }

\* the snapshots of the objects the transactions wrote, in transaction order
WrittenObjects(txs) == Flatten(Map(txs, all_changed_objects))

\* a sequence without its i-th element
Without(s, i) == [k \in 1..(Len(s) - 1) |-> IF k < i THEN s[k] ELSE s[k + 1]]

\* CheckpointData.objects: the written objects in any order and, on a chain whose
\* object lists may be incomplete, these lists without one of their elements
ObjectLists(txs, u) ==
    LET complete == Orderings(WrittenObjects(txs))
    IN  complete \cup
        IF "incomplete" \in u.object_lists
        THEN UNION { { Without(objs, i) : i \in 1..Len(objs) } : objs \in complete }
        ELSE {}

\* CheckpointData: the checkpoints that can follow `prev` on a chain in state l.  A
\* checkpoint that carries the end-of-epoch marker is the last of its epoch: its
\* transactions advance the system state to the next epoch and emit the
\* SystemEpochInfoEvent; the system state object is among the objects of checkpoint 0
\* and of every checkpoint that changes it
NextCheckpoints(l, prev, u) ==
    LET seq == Len(prev)
        total == IF seq = 0 THEN 0 ELSE prev[seq].network_total_transactions
        epoch == IF seq = 0 THEN 0
                 ELSE IF prev[seq].end_of_epoch_data # {} THEN prev[seq].epoch + 1
                 ELSE prev[seq].epoch
    IN  UNION { UNION { { [sequence_number |-> seq,
                           transactions |-> txs,
                           objects |-> objs,
                           network_total_transactions |-> total + n,
                           epoch |-> epoch,
                           end_of_epoch_data |-> marker,
                           system_state |->
                               IF marker # {} THEN { [epoch |-> epoch + 1] }
                               ELSE IF seq = 0 THEN { [epoch |-> epoch] }
                               ELSE {},
                           system_epoch_info_event |-> marker # {} /\ event]
                         : objs \in ObjectLists(txs, u),
                           marker \in u.end_of_epoch_data,
                           event \in u.epoch_event }
                       : txs \in TxRuns(l, u, n) }
              : n \in u.txs }

(***************************************************************************)
(* InMemObjectCache.                                                       *)
(***************************************************************************)
InMemObjectCache_new == [id_map |-> {}, seq_map |-> {}, packages |-> {}]

\* an insert_object that keeps only the latest version of an object
insert_object_latest_only(cache, object) ==
    [cache EXCEPT
        !.id_map = { o \in @ : o.id # object.id } \cup { object },
        !.seq_map = { o \in @ : o.id # object.id } \cup { object }]

insert_object(cache, object) ==
    [cache EXCEPT
        !.id_map = { o \in @ : o.id # object.id } \cup { object },
        !.seq_map = { o \in @ : ~(o.id = object.id /\ o.version = object.version) }
                        \cup { object }]

RECURSIVE insert_objects(_, _)
insert_objects(cache, objects) ==
    IF objects = << >> THEN cache
    ELSE insert_objects(insert_object(cache, Head(objects)), Tail(objects))

\* MovePackage::serialized_module_map: the modules of a package, by name
serialized_module_map(package_id) ==
    { [module_name |-> n, module |-> [package |-> package_id, name |-> n]] :
        n \in ModuleNames }

\* lines 785-800: the modules of the packages are put under (package id, module name)
insert_packages(cache, new_packages) ==
    LET new == UNION { { [package_id |-> new_packages[i].package_id,
                          module_name |-> e.module_name,
                          module |-> e.module]
                        : e \in serialized_module_map(new_packages[i].package_id) }
                     : i \in 1..Len(new_packages) }
    IN  [cache EXCEPT !.packages =
            { e \in @ : \A x \in new : ~(x.package_id = e.package_id
                                          /\ x.module_name = e.module_name) }
            \cup new]

\* InMemObjectCache::get_module_by_id, lines 810-814
InMemObjectCache_get_module_by_id(cache, id) ==
    { e.module : e \in { x \in cache.packages :
                            x.package_id = id.package /\ x.module_name = id.name } }

\* InMemObjectCache::get: version is an Option
get(cache, id, version) ==
    IF version # {}
    THEN { o \in cache.seq_map : o.id = id /\ o.version \in version }
    ELSE { o \in cache.id_map : o.id = id }

(***************************************************************************)
(* The Store's reads.                                                      *)
(***************************************************************************)
\* up: the reads of the Store succeed
PgIndexerStoreV2_new ==
    [transactions |-> {}, tx_indices |-> {}, events |-> {}, objects |-> {},
     packages |-> {}, checkpoints |-> {}, epochs |-> {}, up |-> TRUE]

\* the objects table holds one row per object id
store_get_object(st, object_id, version) ==
    { ObjectRef(r.object_id, r.object_version) :
        r \in { x \in st.objects :
                  /\ x.object_id = object_id
                  /\ (version = {} \/ x.object_version \in version) } }

get_checkpoint_ending_tx_sequence_number(st, seq_num) ==
    { r.network_total_transactions :
        r \in { x \in st.checkpoints : x.sequence_number = seq_num } }

get_latest_tx_checkpoint_sequence_number(st) ==
    IF st.checkpoints = {} THEN {}
    ELSE { CHOOSE m \in { x.sequence_number : x \in st.checkpoints } :
             \A x \in st.checkpoints : x.sequence_number <= m }

\* lines 369-382: max(network_total_transactions) over the checkpoint rows whose epoch
\* is `epoch - 1`, 0 when there is none
get_network_total_transactions_previous_epoch(st, epoch) ==
    LET totals == { r.network_total_transactions :
                      r \in { x \in st.checkpoints : x.epoch = epoch - 1 } }
    IN  IF totals = {} THEN 0
        ELSE CHOOSE m \in totals : \A t \in totals : t <= m

(***************************************************************************)
(* The full node: it serves every version of every object the chain has    *)
(* written.                                                                *)
(***************************************************************************)
try_get_parsed_past_object(chain, id, version) ==
    { o \in UNION { Range(chain[i].objects) : i \in 1..Len(chain) } :
        o.id = id /\ o.version = version }

(***************************************************************************)
(* ObjectProvider for TxChangesProcessor.                                  *)
(***************************************************************************)
\* the results that are a panic of the handler, not an error it returns
Panics == {"StartingTxSeqPanic", "ObjectNotFoundPanic", "VersionAssertPanic",
           "NotInCheckpointDataPanic", "VersionMismatchPanic", "SendPanic",
           "SystemEpochInfoEventPanic", "DynamicFieldInfoPanic"}

\* a get_object that asks the Store before the cache
get_object_store_first(cache, st, chain, rpc_up, id, version) ==
    LET cached == get(cache, id, {version})
        stored == store_get_object(st, id, {version})
        remote == try_get_parsed_past_object(chain, id, version)
    IN  IF ~st.up THEN [res |-> "PostgresReadError", object |-> {}, tier |-> "store"]
        ELSE IF stored # {} THEN [res |-> "Ok", object |-> stored, tier |-> "store"]
        ELSE IF cached # {} THEN [res |-> "Ok", object |-> cached, tier |-> "cache"]
        ELSE IF ~rpc_up THEN [res |-> "FullNodeReadingError", object |-> {}, tier |-> "rpc"]
        ELSE IF remote = {} THEN [res |-> "DataTransformationError", object |-> {}, tier |-> "rpc"]
        ELSE [res |-> "Ok", object |-> remote, tier |-> "rpc"]

\* get_object: cache, then Store, then the full node (rpc_up: the call succeeds);
\* a read of the Store that fails is an error; tier is the last tier it asked
get_object(cache, st, chain, rpc_up, id, version) ==
    LET cached == get(cache, id, {version})
        stored == store_get_object(st, id, {version})
        remote == try_get_parsed_past_object(chain, id, version)
    IN  IF cached # {} THEN [res |-> "Ok", object |-> cached, tier |-> "cache"]
        ELSE IF ~st.up THEN [res |-> "PostgresReadError", object |-> {}, tier |-> "store"]
        ELSE IF stored # {} THEN [res |-> "Ok", object |-> stored, tier |-> "store"]
        ELSE IF ~rpc_up THEN [res |-> "FullNodeReadingError", object |-> {}, tier |-> "rpc"]
        ELSE IF remote = {} THEN [res |-> "DataTransformationError", object |-> {}, tier |-> "rpc"]
        ELSE [res |-> "Ok", object |-> remote, tier |-> "rpc"]

\* a find_object_lt_or_eq_version that returns the cache's latest version of the object
\* whatever its version
find_object_latest_cached(cache, st, id, version) ==
    LET exact == get(cache, id, {version})
        latest == get(cache, id, {})
        stored == store_get_object(st, id, {})
    IN  IF exact # {} THEN [res |-> "Ok", object |-> exact, tier |-> "cache"]
        ELSE IF latest # {} THEN [res |-> "Ok", object |-> latest, tier |-> "cache"]
        ELSE IF ~st.up THEN [res |-> "PostgresReadError", object |-> {}, tier |-> "store"]
        ELSE IF stored = {}
             THEN [res |-> "ObjectNotFoundPanic", object |-> {}, tier |-> "store"]
        ELSE IF \E o \in stored : ~(o.version <= version)
             THEN [res |-> "VersionAssertPanic", object |-> {}, tier |-> "store"]
        ELSE [res |-> "Ok", object |-> stored, tier |-> "store"]

\* lines 940-981: the exact version in the cache, else the cache's latest when it is
\* not above the version, else the Store's latest, which must not be above it
find_object_lt_or_eq_version(cache, st, id, version) ==
    LET exact == get(cache, id, {version})
        latest == { o \in get(cache, id, {}) : o.version <= version }
        stored == store_get_object(st, id, {})
    IN  IF exact # {} THEN [res |-> "Ok", object |-> exact, tier |-> "cache"]
        ELSE IF latest # {} THEN [res |-> "Ok", object |-> latest, tier |-> "cache"]
        ELSE IF ~st.up THEN [res |-> "PostgresReadError", object |-> {}, tier |-> "store"]
        ELSE IF stored = {}
             THEN [res |-> "ObjectNotFoundPanic", object |-> {}, tier |-> "store"]
        ELSE IF \E o \in stored : ~(o.version <= version)
             THEN [res |-> "VersionAssertPanic", object |-> {}, tier |-> "store"]
        ELSE [res |-> "Ok", object |-> stored, tier |-> "store"]

\* a result that hides the failures
failures_ignored(results) == "Ok"

\* the first result that is not Ok, or Ok
FirstFailure(results) ==
    IF \E i \in 1..Len(results) : results[i].res # "Ok"
    THEN results[CHOOSE i \in 1..Len(results) :
                    /\ results[i].res # "Ok"
                    /\ \A j \in 1..(i - 1) : results[j].res = "Ok"].res
    ELSE "Ok"

\* the object versions get_object_changes and get_balance_changes_from_effect ask
\* the ObjectProvider for: the pre-images of the modified objects
provider_reads(fx) == modified_at_versions(fx)

\* TxChangesProcessor::get_changes: the object changes read every pre-image with
\* get_object, then the balance changes read it with find_object_lt_or_eq_version
get_changes(cache, st, chain, rpc_up, fx) ==
    LET called(fn, wanted, results) ==
            [i \in 1..Len(results) |->
                [fn |-> fn, id |-> wanted[i].id, version |-> wanted[i].version,
                 res |-> results[i].res, object |-> results[i].object,
                 tier |-> results[i].tier]]
        \* the changes, given the results of the two passes over the pre-images
        changes(wanted, exact, le) ==
            LET res == IF FirstFailure(exact) # "Ok" THEN FirstFailure(exact)
                       ELSE FirstFailure(le)
            IN  [res |-> res,
                 reads |-> called("get_object", wanted, exact) \o
                           (IF FirstFailure(exact) # "Ok" THEN << >>
                            ELSE called("find_object_lt_or_eq_version", wanted, le)),
                 object_changes |-> IF res = "Ok" THEN Map(exact, LAMBDA x : x.object)
                                    ELSE << >>,
                 balance_change |-> IF res = "Ok" THEN Map(le, LAMBDA x : x.object)
                                    ELSE << >>]
    IN  CHOOSE out \in
            UNION { { changes(wanted, exact, le) :
                          exact \in { Map(wanted, LAMBDA r :
                                          get_object(cache, st, chain, rpc_up,
                                                     r.id, r.version)) },
                          le \in { Map(wanted, LAMBDA r :
                                       find_object_lt_or_eq_version(cache, st,
                                                                    r.id, r.version)) } } :
                    wanted \in { provider_reads(fx) } } : TRUE

(***************************************************************************)
(* CheckpointHandler::index_checkpoint.                                    *)
(***************************************************************************)
\* the removed objects without the wrapped ones
get_deleted_objects_without_wrapped(effects) ==
    deleted(effects) \o unwrapped_then_deleted(effects)

get_deleted_objects(effects) ==
    deleted(effects) \o wrapped(effects) \o unwrapped_then_deleted(effects)

\* one iteration of get_latest_objects' loop
get_latest_objects_step(acc, object) ==
    LET e == { o \in acc.latest_objects : o.id = object.id }
    IN  IF e = {} THEN [acc EXCEPT !.latest_objects = @ \cup { object }]
        ELSE IF \E o \in e : object.version > o.version
             THEN [latest_objects |-> (acc.latest_objects \ e) \cup { object },
                   discarded_versions |-> acc.discarded_versions \cup e]
        ELSE acc

RECURSIVE get_latest_objects_from(_, _)
get_latest_objects_from(acc, objects) ==
    IF objects = << >> THEN acc
    ELSE get_latest_objects_from(get_latest_objects_step(acc, Head(objects)), Tail(objects))

get_latest_objects(objects) ==
    get_latest_objects_from([latest_objects |-> {}, discarded_versions |-> {}], objects)

\* the effects' changed objects that survive index_checkpoint's filter, in order
changed_object_refs(data) ==
    LET latest == get_latest_objects(data.objects)
        deleted_object_ids ==
            Range(Flatten(Map(data.transactions, get_deleted_objects)))
    IN  SelectSeq(Flatten(Map(data.transactions, all_changed_objects)),
                  LAMBDA oref : ~(\/ oref \in latest.discarded_versions
                                  \/ oref \in deleted_object_ids))

is_package(object) == object.id \in PackageIds

index_packages(data) ==
    Map(SelectSeq(data.objects, is_package), LAMBDA o : [package_id |-> o.id])

\* state.module_cache(): the modules of the packages the packages table holds
module_cache_get_module_by_id(st, id) ==
    { e.module : e \in UNION { { x \in serialized_module_map(r.package_id) :
                                    r.package_id = id.package /\ x.module_name = id.name }
                                : r \in st.packages } }

\* an InterimModuleResolver that is built without touching the cache
InterimModuleResolver_new_without_insert(cache, new_packages) == cache

\* InterimModuleResolver::new, indexer_store_v2.rs lines 273-280: the object cache the
\* resolver answers from
InterimModuleResolver_new(cache, new_packages) == insert_packages(cache, new_packages)

\* InterimModuleResolver::get_module_by_id, lines 290-300: tier is the resolver that
\* answered
get_module_by_id(cache, st, id) ==
    LET cached == InMemObjectCache_get_module_by_id(cache, id)
    IN  IF cached # {} THEN [id |-> id, module |-> cached, tier |-> "cache"]
        ELSE [id |-> id, module |-> module_cache_get_module_by_id(st, id),
              tier |-> "backup"]

\* lines 1056-1086: the DynamicFieldInfo of a dynamic field o, `pointed` being the
\* object the info describes
DynamicFieldInfo(type_, pointed, object_type) ==
    [type_ |-> type_, object_id |-> pointed.id, version |-> pointed.version,
     digest |-> ObjectDigest(pointed), object_type |-> object_type]

\* a try_create_dynamic_field_info that looks the pointed object up in the object
\* cache
try_create_dynamic_field_info_from_cache(cache, st, written, o) ==
    LET lookups == [i \in 1..Cardinality(type_module(o.id)) |->
                       get_module_by_id(cache, st, CHOOSE m \in type_module(o.id) : TRUE)]
        object == { x \in cache.id_map : x.id = pointed_object_id(o.id) }
    IN  IF dynamic_field_type(o.id) = {}
        THEN [res |-> "Ok", lookups |-> << >>, df_info |-> {}]
        ELSE IF \E i \in 1..Len(lookups) : lookups[i].module = {}
        THEN [res |-> "ModuleResolutionError", lookups |-> lookups, df_info |-> {}]
        ELSE IF "DynamicObject" \in dynamic_field_type(o.id)
        THEN IF object = {}
             THEN [res |-> "UncategorizedError", lookups |-> lookups, df_info |-> {}]
             ELSE [res |-> "Ok", lookups |-> lookups,
                   df_info |-> { DynamicFieldInfo("DynamicObject", x, ObjectType(x.id)) :
                                   x \in object }]
        ELSE [res |-> "Ok", lookups |-> lookups,
              df_info |-> { DynamicFieldInfo("DynamicField", o, [value_of |-> o.id]) }]

\* try_create_dynamic_field_info, lines 1018-1087: an object that is not a dynamic
\* field has no info; a dynamic field is laid out with the module that defines its
\* type, and a dynamic object field's info is that of the object it points at in
\* `written`, the latest objects of the checkpoint
try_create_dynamic_field_info(cache, st, written, o) ==
    LET lookups == [i \in 1..Cardinality(type_module(o.id)) |->
                       get_module_by_id(cache, st, CHOOSE m \in type_module(o.id) : TRUE)]
        object == { x \in written : x.id = pointed_object_id(o.id) }
    IN  IF dynamic_field_type(o.id) = {}
        THEN [res |-> "Ok", lookups |-> << >>, df_info |-> {}]
        ELSE IF \E i \in 1..Len(lookups) : lookups[i].module = {}
        THEN [res |-> "ModuleResolutionError", lookups |-> lookups, df_info |-> {}]
        ELSE IF "DynamicObject" \in dynamic_field_type(o.id)
        THEN IF object = {}
             THEN [res |-> "UncategorizedError", lookups |-> lookups, df_info |-> {}]
             ELSE [res |-> "Ok", lookups |-> lookups,
                   df_info |-> { DynamicFieldInfo("DynamicObject", x, ObjectType(x.id)) :
                                   x \in object }]
        ELSE [res |-> "Ok", lookups |-> lookups,
              df_info |-> { DynamicFieldInfo("DynamicField", o, [value_of |-> o.id]) }]

\* an index_checkpoint that keeps every written version of the effects
index_checkpoint_every_version(cache, st, data) ==
    [res |-> "Ok",
     object_cache |-> InterimModuleResolver_new(cache, index_packages(data)),
     lookups |-> << >>,
     changed_objects |->
         Map(Flatten(Map(data.transactions, all_changed_objects)), LAMBDA oref :
             [checkpoint_sequence_number |-> data.sequence_number,
              object_id |-> oref.id,
              object_version |-> oref.version,
              df_info |-> {}]),
     deleted_objects |-> Flatten(Map(data.transactions, get_deleted_objects))]

\* an index_checkpoint that makes a row of whatever the latest objects hold for a
\* changed object, and none when they hold nothing
index_checkpoint_without_asserts(cache, st, data) ==
    LET latest == get_latest_objects(data.objects).latest_objects
        refs == SelectSeq(changed_object_refs(data),
                          LAMBDA oref : \E o \in latest : o.id = oref.id)
    IN  [res |-> "Ok",
         object_cache |-> InterimModuleResolver_new(cache, index_packages(data)),
         lookups |-> << >>,
         changed_objects |->
             Map(refs, LAMBDA oref :
                 [checkpoint_sequence_number |-> data.sequence_number,
                  object_id |-> oref.id,
                  object_version |-> (CHOOSE o \in latest : o.id = oref.id).version,
                  df_info |-> {}]),
         deleted_objects |-> Flatten(Map(data.transactions, get_deleted_objects))]

\* lines 536-615: the resolver is built, then every changed object that survives the
\* filter is looked up in the latest objects and its dynamic field info is made;
\* index_checkpoint panics on a changed object that is not in the latest objects or
\* is there at another version, and on a dynamic field info that cannot be made
index_checkpoint(cache, st, data) ==
    LET \* the loop over the changed objects refs, given the latest objects, the
        \* resolver and each object's dynamic field info
        changes(latest, refs, resolver, df_info) ==
            LET found(oref) == { o \in latest : o.id = oref.id }
                bad(i) == \/ found(refs[i]) = {}
                          \/ \E o \in found(refs[i]) : o.version # refs[i].version
                fails(i) == bad(i) \/ df_info[i].res # "Ok"
                first_bad == CHOOSE i \in 1..Len(refs) :
                                 fails(i) /\ \A j \in 1..(i - 1) : ~fails(j)
                reached == IF \E i \in 1..Len(refs) : fails(i) THEN first_bad
                           ELSE Len(refs)
                lookups == Flatten([i \in 1..reached |->
                                       IF bad(i) THEN << >> ELSE df_info[i].lookups])
            IN  IF \E i \in 1..Len(refs) : fails(i)
                THEN [res |-> IF found(refs[first_bad]) = {}
                              THEN "NotInCheckpointDataPanic"
                              ELSE IF bad(first_bad) THEN "VersionMismatchPanic"
                              ELSE "DynamicFieldInfoPanic",
                      object_cache |-> resolver, lookups |-> lookups,
                      changed_objects |-> << >>, deleted_objects |-> << >>]
                ELSE [res |-> "Ok",
                      object_cache |-> resolver, lookups |-> lookups,
                      changed_objects |->
                          [i \in 1..Len(refs) |->
                              [checkpoint_sequence_number |-> data.sequence_number,
                               object_id |-> refs[i].id,
                               object_version |->
                                   (CHOOSE o \in found(refs[i]) : TRUE).version,
                               df_info |-> df_info[i].df_info]],
                      deleted_objects |->
                          Flatten(Map(data.transactions, get_deleted_objects))]
    IN  CHOOSE out \in
            UNION { { changes(latest, refs, resolver, df_info) :
                          df_info \in { Map(refs, LAMBDA oref :
                              try_create_dynamic_field_info(resolver, st, latest,
                                                            oref)) } } :
                    <<latest, refs, resolver>> \in
                        { <<get_latest_objects(data.objects).latest_objects,
                            changed_object_refs(data),
                            InterimModuleResolver_new(cache, index_packages(data))>> } } :
                TRUE

(***************************************************************************)
(* The rows index_checkpoint_and_epoch builds for one transaction.         *)
(***************************************************************************)
TransactionDigest(checkpoint_seq, idx) == [checkpoint |-> checkpoint_seq, index |-> idx]

IndexedTransaction(data, idx, tx_sequence_number, changes) ==
    [tx_sequence_number |-> tx_sequence_number,
     tx_digest |-> TransactionDigest(data.sequence_number, idx),
     checkpoint_sequence_number |-> data.sequence_number,
     transaction |-> data.transactions[idx + 1],
     object_changes |-> changes.object_changes,
     balance_change |-> changes.balance_change]

\* event rows that are numbered from 1
IndexedEvents_from_one(data, idx, tx_sequence_number) ==
    [e \in 1..data.transactions[idx + 1].events |->
        [tx_sequence_number |-> tx_sequence_number,
         event_sequence_number |-> e,
         tx_digest |-> TransactionDigest(data.sequence_number, idx)]]

\* lines 423-431: the rows of the events of the transaction at index idx
IndexedEvents(data, idx, tx_sequence_number) ==
    [e \in 1..data.transactions[idx + 1].events |->
        [tx_sequence_number |-> tx_sequence_number,
         event_sequence_number |-> e - 1,
         tx_digest |-> TransactionDigest(data.sequence_number, idx)]]

TxIndex(data, idx, tx_sequence_number) ==
    [tx_sequence_number |-> tx_sequence_number,
     transaction_digest |-> TransactionDigest(data.sequence_number, idx),
     changed_objects |-> Map(all_changed_objects(data.transactions[idx + 1]),
                             LAMBDA oref : oref.id)]

\* Itertools::unique: the elements in order, each at its first occurrence only
RECURSIVE unique_from(_, _, _)
unique_from(used, out, s) ==
    IF s = << >> THEN out
    ELSE IF Head(s) \in used THEN unique_from(used, out, Tail(s))
    ELSE unique_from(used \cup { Head(s) }, Append(out, Head(s)), Tail(s))

unique(s) == unique_from({}, << >>, s)

\* the closure of the filter_map of lines 480-483
address_owner(entry) ==
    IF entry.owner.kind = "AddressOwner" THEN << entry.owner.address >> ELSE << >>

\* the recipients without the unique()
recipients_with_repeats(changed) == Flatten(Map(changed, address_owner))

\* lines 476-485: changed is all_changed_objects(), entries [object_ref, owner]
recipients(changed) == unique(Flatten(Map(changed, address_owner)))

IndexedCheckpoint(data) ==
    [sequence_number |-> data.sequence_number,
     network_total_transactions |-> data.network_total_transactions,
     epoch |-> data.epoch]

\* a numbering that gives every transaction of a checkpoint the starting number
tx_sequence_number_without_idx(starting_tx_sequence_number, idx) ==
    starting_tx_sequence_number

\* the sequence number of the transaction at index idx of a checkpoint
tx_sequence_number_at(starting_tx_sequence_number, idx) ==
    starting_tx_sequence_number + idx

(***************************************************************************)
(* process_checkpoint: the indexing (lines 125-206), then the send into    *)
(* the channel (lines 207-220), which is where the handler waits.          *)
(***************************************************************************)
HandlerIdle == [pc |-> "idle", checkpoint |-> {}, cause |-> "none"]

HandlerPanicked(cause) == [pc |-> "panicked", checkpoint |-> {}, cause |-> cause]

\* HashMap::insert
map_insert(m, k, v) == { e \in m : e.key # k } \cup { [key |-> k, value |-> v] }

map_get(m, k) == { e.value : e \in { x \in m : x.key = k } }

\* an entry that records the checkpoint's network_total_transactions as it is
next_starting_entry_without_increment(data) ==
    [key |-> data.sequence_number + 1, value |-> data.network_total_transactions]

\* the entry process_checkpoint records for the successor of a checkpoint
next_starting_entry(data) ==
    [key |-> data.sequence_number + 1, value |-> data.network_total_transactions + 1]

\* lines 137-145: the starting tx sequence number of the checkpoint is read from the
\* Store
starting_tx_seq_from_store(m, checkpoint_seq) ==
    checkpoint_seq # 0 /\ map_get(m, checkpoint_seq) = {}

\* a starting tx sequence number that is 0 when the Store has no row to take it from
current_checkpoint_starting_tx_seq_or_zero(m, st, checkpoint_seq) ==
    IF checkpoint_seq = 0 THEN { 0 }
    ELSE IF map_get(m, checkpoint_seq) # {} THEN map_get(m, checkpoint_seq)
    ELSE IF get_checkpoint_ending_tx_sequence_number(st, checkpoint_seq - 1) = {} THEN { 0 }
    ELSE { v + 1 : v \in get_checkpoint_ending_tx_sequence_number(st, checkpoint_seq - 1) }

\* a lookup whose Store fallback starts at the last number of the checkpoint before
current_checkpoint_starting_tx_seq_from_ending(m, st, checkpoint_seq) ==
    IF checkpoint_seq = 0 THEN { 0 }
    ELSE IF map_get(m, checkpoint_seq) # {} THEN map_get(m, checkpoint_seq)
    ELSE get_checkpoint_ending_tx_sequence_number(st, checkpoint_seq - 1)

\* the starting tx sequence number of a checkpoint: an Option, {} where the code panics
current_checkpoint_starting_tx_seq(m, st, checkpoint_seq) ==
    IF checkpoint_seq = 0 THEN { 0 }
    ELSE IF map_get(m, checkpoint_seq) # {} THEN map_get(m, checkpoint_seq)
    ELSE { v + 1 : v \in get_checkpoint_ending_tx_sequence_number(st, checkpoint_seq - 1) }

\* lines 408-503: the loop over the checkpoint's transactions, from index idx on;
\* acc holds the cache, the rows built so far and the numbers assigned so far
RECURSIVE index_transactions(_, _, _, _, _, _, _)
index_transactions(acc, st, chain, rpc_up, data, starting_tx_sequence_number, idx) ==
    IF idx = Len(data.transactions) \/ acc.res # "Ok" THEN acc
    ELSE
        LET tx_sequence_number == tx_sequence_number_at(starting_tx_sequence_number, idx)
            assigned == acc.assigned \cup
                            { [checkpoint |-> data.sequence_number, index |-> idx,
                               tx_sequence_number |-> tx_sequence_number] }
            \* the accumulator after transaction idx, given the cache and its changes
            indexed(cache, changes) ==
                IF changes.res # "Ok"
                THEN [acc EXCEPT !.res = changes.res, !.object_cache = cache,
                                 !.assigned = assigned, !.reads = @ \o changes.reads]
                ELSE [res |-> "Ok",
                      object_cache |-> cache,
                      assigned |-> assigned,
                      reads |-> acc.reads \o changes.reads,
                      db_transactions |-> Append(acc.db_transactions,
                          IndexedTransaction(data, idx, tx_sequence_number, changes)),
                      db_events |-> acc.db_events \o
                          IndexedEvents(data, idx, tx_sequence_number),
                      db_indices |-> Append(acc.db_indices,
                          TxIndex(data, idx, tx_sequence_number))]
        IN  CHOOSE rows \in
                UNION { UNION { { index_transactions(next, st, chain, rpc_up, data,
                                                     starting_tx_sequence_number, idx + 1) :
                                      next \in { indexed(cache, changes) } } :
                                changes \in { get_changes(cache, st, chain, rpc_up,
                                                          data.transactions[idx + 1]) } } :
                        cache \in { insert_objects(acc.object_cache, data.objects) } } : TRUE

(***************************************************************************)
(* CheckpointHandler::index_epoch.                                         *)
(***************************************************************************)
\* the row of an epoch that has just opened
IndexedEpochInfo(epoch, first_checkpoint_id) ==
    [epoch |-> epoch, first_checkpoint_id |-> { first_checkpoint_id },
     epoch_total_transactions |-> 0, end_of_epoch_info |-> {}]

\* an index_epoch that looks for the end-of-epoch marker before the genesis checkpoint
index_epoch_marker_first(st, data) ==
    IF data.end_of_epoch_data = {}
    THEN [res |-> "Ok", epoch |-> {}]
    ELSE IF data.system_state = {}
    THEN [res |-> "SuiSystemStateError", epoch |-> {}]
    ELSE IF ~data.system_epoch_info_event
    THEN [res |-> "SystemEpochInfoEventPanic", epoch |-> {}]
    ELSE IF ~st.up
    THEN [res |-> "PostgresReadError", epoch |-> {}]
    ELSE
        LET system_state == CHOOSE x \in data.system_state : TRUE
        IN  [res |-> "Ok",
             epoch |->
                 { [last_epoch |->
                        { [epoch |-> system_state.epoch - 1,
                           last_checkpoint_id |-> data.sequence_number,
                           epoch_total_transactions |->
                               data.network_total_transactions
                               - get_network_total_transactions_previous_epoch(
                                     st, system_state.epoch - 1)] },
                    new_epoch |->
                        IndexedEpochInfo(system_state.epoch, data.sequence_number + 1)] }]

\* an index_epoch that does not look for the SystemEpochInfoEvent
index_epoch_without_event(st, data) ==
    IF data.sequence_number # 0 /\ data.end_of_epoch_data = {}
    THEN [res |-> "Ok", epoch |-> {}]
    ELSE IF data.system_state = {}
    THEN [res |-> "SuiSystemStateError", epoch |-> {}]
    ELSE IF data.sequence_number = 0
    THEN [res |-> "Ok",
          epoch |-> { [last_epoch |-> {}, new_epoch |-> IndexedEpochInfo(0, 0)] }]
    ELSE IF ~st.up
    THEN [res |-> "PostgresReadError", epoch |-> {}]
    ELSE
        LET system_state == CHOOSE x \in data.system_state : TRUE
        IN  [res |-> "Ok",
             epoch |->
                 { [last_epoch |->
                        { [epoch |-> system_state.epoch - 1,
                           last_checkpoint_id |-> data.sequence_number,
                           epoch_total_transactions |->
                               data.network_total_transactions
                               - get_network_total_transactions_previous_epoch(
                                     st, system_state.epoch - 1)] },
                    new_epoch |->
                        IndexedEpochInfo(system_state.epoch, data.sequence_number + 1)] }]

\* lines 255-363: res is Ok, an error or a panic; epoch is an Option of
\* TemporaryEpochStoreV2
index_epoch(st, data) ==
    IF data.sequence_number # 0 /\ data.end_of_epoch_data = {}
    THEN [res |-> "Ok", epoch |-> {}]
    ELSE IF data.system_state = {}
    THEN [res |-> "SuiSystemStateError", epoch |-> {}]
    ELSE IF data.sequence_number = 0
    THEN [res |-> "Ok",
          epoch |-> { [last_epoch |-> {}, new_epoch |-> IndexedEpochInfo(0, 0)] }]
    ELSE IF ~data.system_epoch_info_event
    THEN [res |-> "SystemEpochInfoEventPanic", epoch |-> {}]
    ELSE IF ~st.up
    THEN [res |-> "PostgresReadError", epoch |-> {}]
    ELSE
        LET system_state == CHOOSE x \in data.system_state : TRUE
            last_epoch == system_state.epoch - 1
            network_tx_count_prev_epoch ==
                get_network_total_transactions_previous_epoch(st, last_epoch)
        IN  [res |-> "Ok",
             epoch |->
                 { [last_epoch |->
                        { [epoch |-> system_state.epoch - 1,
                           last_checkpoint_id |-> data.sequence_number,
                           epoch_total_transactions |->
                               data.network_total_transactions - network_tx_count_prev_epoch] },
                    new_epoch |->
                        IndexedEpochInfo(system_state.epoch, data.sequence_number + 1)] }]

\* index_checkpoint_and_epoch, lines 365-534: res is Ok, an error or panic
index_checkpoint_and_epoch(cache, st, chain, rpc_up, data, starting_tx_sequence_number) ==
    LET first == [res |-> "Ok", object_cache |-> cache, assigned |-> {}, reads |-> << >>,
                  db_transactions |-> << >>, db_events |-> << >>, db_indices |-> << >>]
        \* the handler's result, given the rows, the epoch and the object changes
        result(rows, epoch_index, changes) ==
            LET indexed == rows.res = "Ok" /\ epoch_index.res = "Ok"
            IN  [res |-> IF rows.res # "Ok" THEN rows.res
                         ELSE IF epoch_index.res # "Ok" THEN epoch_index.res
                         ELSE changes.res,
                 epoch |-> IF rows.res # "Ok" THEN {} ELSE epoch_index.epoch,
                 object_cache |-> IF indexed THEN changes.object_cache
                                  ELSE rows.object_cache,
                 lookups |-> IF indexed THEN changes.lookups ELSE << >>,
                 assigned |-> rows.assigned,
                 reads |-> rows.reads,
                 checkpoint |->
                     [checkpoint |-> IndexedCheckpoint(data),
                      transactions |-> rows.db_transactions,
                      events |-> rows.db_events,
                      tx_indices |-> rows.db_indices,
                      object_changes |->
                          [changed_objects |-> changes.changed_objects,
                           deleted_objects |-> changes.deleted_objects],
                      packages |-> index_packages(data)]]
    IN  CHOOSE out \in
            UNION { { result(rows, epoch_index, changes) :
                          epoch_index \in { index_epoch(st, data) },
                          changes \in { index_checkpoint(rows.object_cache, st, data) } } :
                    rows \in { index_transactions(first, st, chain, rpc_up, data,
                                                  starting_tx_sequence_number, 0) } } : TRUE

\* the checkpoint the provider feeds: the one the chain produced, or the chain's next
FedCheckpoints(u) ==
    IF next_checkpoint < Len(stream) THEN { stream[next_checkpoint + 1] }
    ELSE IF next_checkpoint <= u.checkpoints THEN NextCheckpoints(ledger, stream, u)
    ELSE {}

\* lines 125-206: record the successor's starting number, find this checkpoint's and
\* index the checkpoint; an error, of a read of the Store or of the full node, is
\* returned to the provider, which feeds the checkpoint again
process_checkpoint(u) ==
    /\ handler.pc = "idle"
    /\ \E data \in FedCheckpoints(u), rpc_up \in BOOLEAN, store_up \in u.store_up :
        \E e \in { next_starting_entry(data) },
           chain \in { IF next_checkpoint < Len(stream) THEN stream
                       ELSE Append(stream, data) } :
        \E m \in { map_insert(checkpoint_starting_tx_seq_numbers, e.key, e.value) } :
        \E start \in { current_checkpoint_starting_tx_seq(m, store, data.sequence_number) } :
            /\ checkpoint_starting_tx_seq_numbers' = m
            /\ stream' = chain
            /\ ledger' = IF next_checkpoint < Len(stream) THEN ledger
                         ELSE ApplyTxs(ledger, data.transactions)
            /\ IF starting_tx_seq_from_store(m, data.sequence_number) /\ ~store_up
               THEN /\ handler' = HandlerIdle
                    /\ trace' = [trace EXCEPT !.failed = @ \cup { data.sequence_number },
                                               !.reads = << >>, !.lookups = << >>]
                    /\ UNCHANGED object_cache
               ELSE IF start = {}
               THEN /\ handler' = HandlerPanicked("StartingTxSeqPanic")
                    /\ UNCHANGED <<object_cache, trace>>
               ELSE \E indexed \in { index_checkpoint_and_epoch(
                                          object_cache, [store EXCEPT !.up = store_up],
                                          chain, rpc_up, data,
                                          CHOOSE v \in start : TRUE) } :
                    /\ object_cache' = indexed.object_cache
                    /\ trace' = [trace EXCEPT !.assigned = @ \cup indexed.assigned,
                                               !.reads = indexed.reads,
                                               !.lookups = indexed.lookups,
                                               !.epochs = @ \cup
                                                   { [checkpoint |-> data.sequence_number,
                                                      index |-> x] : x \in indexed.epoch },
                                               !.handed = @ \cup { data.sequence_number },
                                               !.failed =
                                                   IF indexed.res \in Panics \cup {"Ok"}
                                                   THEN @
                                                   ELSE @ \cup { data.sequence_number }]
                    /\ handler' =
                         CASE indexed.res \in Panics -> HandlerPanicked(indexed.res)
                           [] indexed.res # "Ok" -> HandlerIdle
                           [] OTHER -> [pc |-> "send", checkpoint |-> { indexed.checkpoint },
                                        cause |-> "none"]
    /\ UNCHANGED <<applied, next_checkpoint, channel, committer, store, skip_db_commit, restarts,
                   store_failures>>

\* a channel that takes a batch whatever it holds
channel_without_bound(ch, size) == TRUE

\* metered_channel::channel(checkpoint_queue_size): a send completes when the channel
\* holds fewer than `size` batches
channel_has_capacity(ch, size) == Len(ch) < size

\* lines 207-220: the send waits while the channel is full, and panics when the
\* commit task has gone
send_checkpoint ==
    /\ handler.pc = "send"
    /\ \E checkpoint \in handler.checkpoint :
        IF committer.pc = "dead"
        THEN /\ handler' = HandlerPanicked("SendPanic")
             /\ UNCHANGED <<channel, next_checkpoint, trace>>
        ELSE /\ channel_has_capacity(channel, QueueSize)
             /\ channel' = Append(channel, checkpoint)
             /\ handler' = HandlerIdle
             /\ next_checkpoint' = next_checkpoint + 1
             /\ trace' = [trace EXCEPT !.sent = Append(@, checkpoint.checkpoint.sequence_number)]
    /\ UNCHANGED <<applied, ledger, stream, checkpoint_starting_tx_seq_numbers, object_cache,
                   committer, store, skip_db_commit, restarts, store_failures>>

(***************************************************************************)
(* The Store's writes.  Each runs in one database transaction, so the      *)
(* chunks of PG_COMMIT_CHUNK_SIZE rows it is written in are not visible.   *)
(***************************************************************************)
\* insert ... on conflict do nothing: a row is kept unless its key is already there
insert_on_conflict_do_nothing(table, rows, Key(_)) ==
    table \cup
    { rows[i] : i \in { k \in 1..Len(rows) :
                          /\ \A x \in table : Key(x) # Key(rows[k])
                          /\ \A j \in 1..(k - 1) : Key(rows[j]) # Key(rows[k]) } }

persist_transactions(st, transactions) ==
    [st EXCEPT !.transactions =
        insert_on_conflict_do_nothing(@, transactions, LAMBDA r : r.tx_sequence_number)]

persist_tx_indices(st, indices) ==
    [st EXCEPT !.tx_indices =
        insert_on_conflict_do_nothing(@, indices, LAMBDA r : r.tx_sequence_number)]

\* a persist_events on a table that numbers the rows itself and has no other key
persist_events_with_serial_key(st, events) ==
    [st EXCEPT !.events =
        @ \cup { [events[i] EXCEPT !.event_sequence_number = Cardinality(st.events) + i]
                   : i \in 1..Len(events) }]

persist_events(st, events) ==
    [st EXCEPT !.events =
        insert_on_conflict_do_nothing(@, events,
            LAMBDA r : <<r.tx_sequence_number, r.event_sequence_number>>)]

persist_packages(st, packages) ==
    [st EXCEPT !.packages =
        insert_on_conflict_do_nothing(@, packages, LAMBDA r : r.package_id)]

\* a persist_checkpoints that writes the row of the newest checkpoint of the round only
persist_checkpoints_newest_only(st, checkpoints) ==
    [st EXCEPT !.checkpoints =
        @ \cup { checkpoints[i] : i \in { j \in 1..Len(checkpoints) : j = Len(checkpoints) } }]

persist_checkpoints(st, checkpoints) ==
    [st EXCEPT !.checkpoints =
        insert_on_conflict_do_nothing(@, checkpoints, LAMBDA r : r.sequence_number)]

\* lines 384-424: the end-of-epoch info is upserted by epoch, then the new epoch's row
\* is inserted unless the epoch has one
persist_epoch(st, data) ==
    LET closed(e) == [epoch |-> e.epoch, first_checkpoint_id |-> {},
                      epoch_total_transactions |-> e.epoch_total_transactions,
                      end_of_epoch_info |-> { e.last_checkpoint_id }]
        updated(r, e) == [r EXCEPT !.epoch_total_transactions = e.epoch_total_transactions,
                                   !.end_of_epoch_info = { e.last_checkpoint_id }]
        upserted ==
            IF data.last_epoch = {} THEN st.epochs
            ELSE LET e == CHOOSE x \in data.last_epoch : TRUE
                 IN  IF \E r \in st.epochs : r.epoch = e.epoch
                     THEN { IF r.epoch = e.epoch THEN updated(r, e) ELSE r : r \in st.epochs }
                     ELSE st.epochs \cup { closed(e) }
    IN  [st EXCEPT !.epochs =
            insert_on_conflict_do_nothing(upserted, << data.new_epoch >>, LAMBDA r : r.epoch)]

\* one iteration of get_objects_to_commit's loop over the mutated objects
get_objects_to_commit_step(latest_objects, object) ==
    LET e == { o \in latest_objects : o.object_id = object.object_id }
    IN  IF e = {} THEN latest_objects \cup { object }
        ELSE IF \E o \in e : object.object_version > o.object_version
             THEN (latest_objects \ e) \cup { object }
        ELSE latest_objects

RECURSIVE get_objects_to_commit_from(_, _)
get_objects_to_commit_from(latest_objects, objects) ==
    IF objects = << >> THEN latest_objects
    ELSE get_objects_to_commit_from(
             get_objects_to_commit_step(latest_objects, Head(objects)), Tail(objects))

get_objects_to_commit(tx_object_changes) ==
    [mutated_objects |->
        get_objects_to_commit_from({},
            Flatten(Map(tx_object_changes, LAMBDA c : c.changed_objects))),
     deleted_objects |->
        { o.id : o \in Range(Flatten(Map(tx_object_changes, LAMBDA c : c.deleted_objects))) }]

\* the mutated objects are upserted by object id, then the deleted ids' rows are deleted
persist_object_changes(st, tx_object_changes) ==
    LET c == get_objects_to_commit(tx_object_changes)
        upserted == { r \in st.objects :
                        \A o \in c.mutated_objects : o.object_id # r.object_id }
                    \cup c.mutated_objects
    IN  [st EXCEPT !.objects = { r \in upserted : r.object_id \notin c.deleted_objects }]

(***************************************************************************)
(* start_tx_checkpoint_commit_task.                                        *)
(***************************************************************************)
PersistCalls == {"transactions", "tx_indices", "events", "object_changes", "packages"}

CommitterWaiting ==
    [pc |-> "wait", checkpoint_batch |-> << >>, tx_batch |-> << >>,
     events_batch |-> << >>, tx_indices_batch |-> << >>,
     object_changes_batch |-> << >>, packages_batch |-> << >>,
     done |-> [k \in PersistCalls |-> "none"]]

\* a chunk that hands the ready batches over newest first
ready_chunk_newest_first(ch, size) ==
    LET n == IF Len(ch) < size THEN Len(ch) ELSE size
    IN  [i \in 1..n |-> ch[n + 1 - i]]

\* a chunk that is handed over only when `size` batches are ready
ready_chunk_when_full(ch, size) ==
    IF Len(ch) < size THEN << >> ELSE SubSeq(ch, 1, size)

\* ready_chunks: the batches that are ready, at most `size` of them
ready_chunk(ch, size) == SubSeq(ch, 1, IF Len(ch) < size THEN Len(ch) ELSE size)

\* a flattening that keeps the rows of the first batch of the chunk only
first_batch_only(chunk) ==
    [checkpoint_batch |-> << Head(chunk).checkpoint >>,
     tx_batch |-> Head(chunk).transactions,
     events_batch |-> Head(chunk).events,
     tx_indices_batch |-> Head(chunk).tx_indices,
     object_changes_batch |-> << Head(chunk).object_changes >>,
     packages_batch |-> Head(chunk).packages]

\* lines 673-700: the rows of the chunk's batches, per kind, in the chunk's order
flatten_batches(chunk) ==
    [checkpoint_batch |-> Map(chunk, LAMBDA b : b.checkpoint),
     tx_batch |-> Flatten(Map(chunk, LAMBDA b : b.transactions)),
     events_batch |-> Flatten(Map(chunk, LAMBDA b : b.events)),
     tx_indices_batch |-> Flatten(Map(chunk, LAMBDA b : b.tx_indices)),
     object_changes_batch |-> Map(chunk, LAMBDA b : b.object_changes),
     packages_batch |-> Flatten(Map(chunk, LAMBDA b : b.packages))]

\* a commit task that does not look at skip_db_commit
next_round_ignoring_skip(skip, c, chunk) ==
    [pc |-> "persist",
     checkpoint_batch |-> flatten_batches(chunk).checkpoint_batch,
     tx_batch |-> flatten_batches(chunk).tx_batch,
     events_batch |-> flatten_batches(chunk).events_batch,
     tx_indices_batch |-> flatten_batches(chunk).tx_indices_batch,
     object_changes_batch |-> flatten_batches(chunk).object_changes_batch,
     packages_batch |-> flatten_batches(chunk).packages_batch,
     done |-> [k \in PersistCalls |-> "pending"]]

\* lines 656-700: with skip_db_commit the chunk is dropped and the task goes on to
\* the next, else the round's rows are made ready for the persist calls
next_round(skip, c, chunk) ==
    IF skip THEN c
    ELSE [pc |-> "persist",
          checkpoint_batch |-> flatten_batches(chunk).checkpoint_batch,
          tx_batch |-> flatten_batches(chunk).tx_batch,
          events_batch |-> flatten_batches(chunk).events_batch,
          tx_indices_batch |-> flatten_batches(chunk).tx_indices_batch,
          object_changes_batch |-> flatten_batches(chunk).object_changes_batch,
          packages_batch |-> flatten_batches(chunk).packages_batch,
          done |-> [k \in PersistCalls |-> "pending"]]

\* lines 655-708: take a chunk, flatten it and issue the five persist calls
commit_task_next_chunk ==
    /\ committer.pc = "wait"
    /\ channel # << >>
    /\ LET chunk == ready_chunk(channel, BatchSize)
       IN  /\ channel' = SubSeq(channel, Len(chunk) + 1, Len(channel))
           /\ trace' = [trace EXCEPT
                          !.received = @ \o Map(chunk, LAMBDA b : b.checkpoint.sequence_number),
                          !.rounds = IF skip_db_commit THEN @
                                     ELSE Append(@, Map(chunk, LAMBDA b : b.checkpoint.sequence_number))]
           /\ committer' = next_round(skip_db_commit, committer, chunk)
    /\ UNCHANGED <<applied, ledger, stream, next_checkpoint, checkpoint_starting_tx_seq_numbers,
                   object_cache, handler, store, skip_db_commit, restarts, store_failures>>

\* what one of the five concurrent persist calls writes when it succeeds
persist_call(st, call, c) ==
    CASE call = "transactions" -> persist_transactions(st, c.tx_batch)
      [] call = "tx_indices" -> persist_tx_indices(st, c.tx_indices_batch)
      [] call = "events" -> persist_events(st, c.events_batch)
      [] call = "object_changes" -> persist_object_changes(st, c.object_changes_batch)
      [] OTHER -> persist_packages(st, c.packages_batch)

\* lines 702-709: one of the five calls completes, with success
persist_data ==
    /\ committer.pc = "persist"
    /\ \E call \in PersistCalls :
        /\ committer.done[call] = "pending"
        /\ store' = persist_call(store, call, committer)
        /\ committer' = [committer EXCEPT !.done[call] = "Ok"]
    /\ UNCHANGED <<applied, ledger, stream, next_checkpoint, checkpoint_starting_tx_seq_numbers,
                   object_cache, handler, channel, skip_db_commit, restarts,
                   store_failures, trace>>

\* one of the five calls completes with an error: its transaction wrote nothing
persist_data_fails ==
    /\ committer.pc = "persist"
    /\ store_failures < MaxStoreFailures
    /\ \E call \in PersistCalls :
        /\ committer.done[call] = "pending"
        /\ committer' = [committer EXCEPT !.done[call] = "Err"]
    /\ store_failures' = store_failures + 1
    /\ UNCHANGED <<applied, ledger, stream, next_checkpoint, checkpoint_starting_tx_seq_numbers,
                   object_cache, handler, channel, store, skip_db_commit, restarts, trace>>

\* a join that looks at the result of persist_transactions only
transactions_persisted(c) == c.done["transactions"] = "Ok"

\* a join that waits for the five results and does not look at them
all_returned(c) == \A k \in PersistCalls : c.done[k] # "pending"

all_persisted(c) == \A k \in PersistCalls : c.done[k] = "Ok"

\* lines 710-718: join_all has all five results, one is an error: expect panics
commit_task_join_panics ==
    /\ committer.pc = "persist"
    /\ \A k \in PersistCalls : committer.done[k] # "pending"
    /\ ~all_persisted(committer)
    /\ committer' = [committer EXCEPT !.pc = "dead"]
    /\ UNCHANGED <<applied, ledger, stream, next_checkpoint, checkpoint_starting_tx_seq_numbers,
                   object_cache, handler, channel, store, skip_db_commit, restarts,
                   store_failures, trace>>

\* lines 720-733: all five succeeded, the checkpoint rows are written
commit_task_persist_checkpoints ==
    /\ committer.pc = "persist"
    /\ all_persisted(committer)
    /\ store' = persist_checkpoints(store, committer.checkpoint_batch)
    /\ committer' = CommitterWaiting
    /\ UNCHANGED <<applied, ledger, stream, next_checkpoint, checkpoint_starting_tx_seq_numbers,
                   object_cache, handler, channel, skip_db_commit, restarts,
                   store_failures, trace>>

\* persist_checkpoints returns an error: expect panics
commit_task_persist_checkpoints_fails ==
    /\ committer.pc = "persist"
    /\ all_persisted(committer)
    /\ store_failures < MaxStoreFailures
    /\ store_failures' = store_failures + 1
    /\ committer' = [committer EXCEPT !.pc = "dead"]
    /\ UNCHANGED <<applied, ledger, stream, next_checkpoint, checkpoint_starting_tx_seq_numbers,
                   object_cache, handler, channel, store, skip_db_commit, restarts, trace>>

\* lines 702-733 without interruption: the five calls, then persist_checkpoints
persist_round(st, c) ==
    persist_checkpoints(
        persist_call(
            persist_call(
                persist_call(
                    persist_call(
                        persist_call(st, "transactions", c),
                        "tx_indices", c),
                    "events", c),
                "object_changes", c),
            "packages", c),
        c.checkpoint_batch)

commit_task_round ==
    /\ committer.pc = "persist"
    /\ \A k \in PersistCalls : committer.done[k] = "pending"
    /\ store' = persist_round(store, committer)
    /\ committer' = CommitterWaiting
    /\ UNCHANGED <<applied, ledger, stream, next_checkpoint, checkpoint_starting_tx_seq_numbers,
                   object_cache, handler, channel, skip_db_commit, restarts,
                   store_failures, trace>>

(***************************************************************************)
(* The process.                                                            *)
(***************************************************************************)
TraceAtStart ==
    [sent |-> << >>, received |-> << >>, rounds |-> << >>, assigned |-> {},
     stopped_before_fence |-> FALSE, reads |-> << >>, handed |-> {}, epochs |-> {},
     lookups |-> << >>, failed |-> {}]

\* the process stops between the concurrent persistence step and persist_checkpoints
before_fence(c) ==
    c.pc \in {"persist", "dead"} /\ \A k \in PersistCalls : c.done[k] = "Ok"

\* new_handlers, lines 62-104, after the process has stopped at any point: the
\* provider resumes after the latest checkpoint row
restart ==
    /\ restarts < MaxRestarts
    /\ restarts' = restarts + 1
    /\ checkpoint_starting_tx_seq_numbers' = {}
    /\ object_cache' = InMemObjectCache_new
    /\ handler' = HandlerIdle
    /\ channel' = << >>
    /\ committer' = CommitterWaiting
    /\ next_checkpoint' =
         IF get_latest_tx_checkpoint_sequence_number(store) = {} THEN 0
         ELSE (CHOOSE v \in get_latest_tx_checkpoint_sequence_number(store) : TRUE) + 1
    /\ trace' = [TraceAtStart EXCEPT !.assigned = trace.assigned,
                                     !.epochs = trace.epochs,
                                     !.stopped_before_fence = before_fence(committer)]
    /\ UNCHANGED <<applied, ledger, stream, store, skip_db_commit, store_failures>>

\* new_handlers after the process has stopped at any point, under a provider that
\* resumes at a checkpoint of its own choice: one the chain has produced, or the next
restart_at_any_checkpoint ==
    /\ restarts < MaxRestarts
    /\ restarts' = restarts + 1
    /\ checkpoint_starting_tx_seq_numbers' = {}
    /\ object_cache' = InMemObjectCache_new
    /\ handler' = HandlerIdle
    /\ channel' = << >>
    /\ committer' = CommitterWaiting
    /\ next_checkpoint' \in 0..Len(stream)
    /\ trace' = [TraceAtStart EXCEPT !.assigned = trace.assigned,
                                     !.epochs = trace.epochs,
                                     !.stopped_before_fence = before_fence(committer)]
    /\ UNCHANGED <<applied, ledger, stream, store, skip_db_commit, store_failures>>

\* no function is applied on its own
NoCall == [fn |-> "none", input |-> << >>, output |-> {}]

PipelineAtStart(skip) ==
    /\ ledger = GenesisLedger
    /\ stream = << >>
    /\ next_checkpoint = 0
    /\ checkpoint_starting_tx_seq_numbers = {}
    /\ object_cache = InMemObjectCache_new
    /\ handler = HandlerIdle
    /\ channel = << >>
    /\ committer = CommitterWaiting
    /\ store = PgIndexerStoreV2_new
    /\ skip_db_commit = skip
    /\ restarts = 0
    /\ store_failures = 0
    /\ trace = TraceAtStart

Started(skip) == PipelineAtStart(skip) /\ applied = NoCall

(***************************************************************************)
(* Spec: the handler and the commit task run concurrently, the process may *)
(* stop and restart at any point.                                          *)
(***************************************************************************)
Init == \E skip \in BOOLEAN : Started(skip)

Next ==
    \/ process_checkpoint(PipelineChain)
    \/ send_checkpoint
    \/ commit_task_next_chunk
    \/ persist_data
    \/ persist_data_fails
    \/ commit_task_join_panics
    \/ commit_task_persist_checkpoints
    \/ commit_task_persist_checkpoints_fails
    \/ restart

Spec == Init /\ [][Next]_vars

(***************************************************************************)
(* SpecSeq: one checkpoint at a time.  The provider feeds a checkpoint     *)
(* when the one before has been committed on its own, a commit round runs  *)
(* without interruption, the Store does not fail, and the process restarts *)
(* only when nothing is under way.                                         *)
(***************************************************************************)
Quiescent == handler.pc = "idle" /\ channel = << >> /\ committer.pc = "wait"

InitSeq == Started(FALSE)

feed_checkpoint == Quiescent /\ process_checkpoint(SequentialChain)

clean_restart == Quiescent /\ restart

NextSeq ==
    \/ feed_checkpoint
    \/ send_checkpoint
    \/ commit_task_next_chunk
    \/ commit_task_round
    \/ clean_restart

SpecSeq == InitSeq /\ [][NextSeq]_vars

(***************************************************************************)
(* SpecRetry: as Spec, and the reads of the Store may fail.                *)
(***************************************************************************)
NextRetry ==
    \/ process_checkpoint(RetryChain)
    \/ send_checkpoint
    \/ commit_task_next_chunk
    \/ persist_data
    \/ persist_data_fails
    \/ commit_task_join_panics
    \/ commit_task_persist_checkpoints
    \/ commit_task_persist_checkpoints_fails
    \/ restart

SpecRetry == Init /\ [][NextRetry]_vars

(***************************************************************************)
(* SpecAhead: the handler and the commit task run concurrently on a chain  *)
(* of more checkpoints than the channel holds, each of which may close an  *)
(* epoch; a commit round runs without interruption, the Store does not     *)
(* fail and the process does not restart.                                  *)
(***************************************************************************)
InitAhead == \E skip \in BOOLEAN : Started(skip)

NextAhead ==
    \/ process_checkpoint(AheadChain)
    \/ send_checkpoint
    \/ commit_task_next_chunk
    \/ commit_task_round

SpecAhead == InitAhead /\ [][NextAhead]_vars

\* the handler and the commit task are tasks of the runtime: a send that can complete
\* does, and the commit task takes the chunk that is ready when it waits for one
FairSpecAhead ==
    SpecAhead /\ WF_vars(send_checkpoint) /\ WF_vars(commit_task_next_chunk)

(***************************************************************************)
(* SpecDrain: the pipeline of SpecAhead with db commits on, a handler that *)
(* may be dropped and a commit task whose loop ends when the channel is    *)
(* closed and empty.                                                       *)
(***************************************************************************)
\* the CheckpointHandler is gone, and with it the only Sender of the channel
HandlerDropped == [pc |-> "dropped", checkpoint |-> {}, cause |-> "none"]

\* the handler is dropped, between two checkpoints or with a batch it has not sent
drop_sender ==
    /\ handler.pc \in {"idle", "send"}
    /\ handler' = HandlerDropped
    /\ UNCHANGED <<applied, ledger, stream, next_checkpoint, checkpoint_starting_tx_seq_numbers,
                   object_cache, channel, committer, store, skip_db_commit, restarts,
                   store_failures, trace>>

\* a commit task whose loop ends as soon as the channel is closed
commit_task_ends_on_close ==
    /\ committer.pc = "wait"
    /\ handler.pc = "dropped"
    /\ committer' = [committer EXCEPT !.pc = "done"]
    /\ UNCHANGED <<applied, ledger, stream, next_checkpoint, checkpoint_starting_tx_seq_numbers,
                   object_cache, handler, channel, store, skip_db_commit, restarts,
                   store_failures, trace>>

\* line 655: stream.next() is None once the channel is closed and empty, the while let
\* loop ends and the task returns
commit_task_ends ==
    /\ committer.pc = "wait"
    /\ handler.pc = "dropped"
    /\ channel = << >>
    /\ committer' = [committer EXCEPT !.pc = "done"]
    /\ UNCHANGED <<applied, ledger, stream, next_checkpoint, checkpoint_starting_tx_seq_numbers,
                   object_cache, handler, channel, store, skip_db_commit, restarts,
                   store_failures, trace>>

InitDrain == Started(FALSE)

NextDrain ==
    \/ process_checkpoint(AheadChain)
    \/ send_checkpoint
    \/ drop_sender
    \/ commit_task_next_chunk
    \/ commit_task_round
    \/ commit_task_ends

SpecDrain == InitDrain /\ [][NextDrain]_vars

\* the commit task is a spawned task of the runtime: it is polled whenever a chunk is
\* ready or the channel is closed, and its Store writes complete
FairSpecDrain ==
    /\ SpecDrain
    /\ WF_vars(commit_task_next_chunk)
    /\ WF_vars(commit_task_round)
    /\ WF_vars(commit_task_ends)


(***************************************************************************)
(* SpecPublish: the handler and the commit task run concurrently on a      *)
(* chain that publishes a package and writes dynamic fields of its types;  *)
(* the five persist calls of a commit round complete in any order, the     *)
(* Store does not fail and the process restarts only when nothing is under *)
(* way.                                                                    *)
(***************************************************************************)
InitPublish == Started(FALSE)

NextPublish ==
    \/ process_checkpoint(PublishChain)
    \/ send_checkpoint
    \/ commit_task_next_chunk
    \/ persist_data
    \/ commit_task_persist_checkpoints
    \/ clean_restart

SpecPublish == InitPublish /\ [][NextPublish]_vars

(***************************************************************************)
(* SpecField: one checkpoint at a time, on a chain that writes a dynamic   *)
(* object field and the object it points at; the Store does not fail and   *)
(* the process does not restart.                                           *)
(***************************************************************************)
InitField == Started(FALSE)

feed_field_checkpoint == Quiescent /\ process_checkpoint(FieldChain)

NextField ==
    \/ feed_field_checkpoint
    \/ send_checkpoint
    \/ commit_task_next_chunk
    \/ commit_task_round

SpecField == InitField /\ [][NextField]_vars

(***************************************************************************)
(* SpecFatal: the handler and the commit task run concurrently on input    *)
(* that may break what the handler asserts of it: the checkpoints are      *)
(* those of FatalChain, and after a stop the provider resumes at a         *)
(* checkpoint of its own choice.  A commit round runs without              *)
(* interruption and the Store does not fail.                               *)
(***************************************************************************)
InitFatal == Started(FALSE)

NextFatal ==
    \/ process_checkpoint(FatalChain)
    \/ send_checkpoint
    \/ commit_task_next_chunk
    \/ commit_task_round
    \/ restart_at_any_checkpoint

SpecFatal == InitFatal /\ [][NextFatal]_vars

(***************************************************************************)
(* SpecRecipients: the recipients of a TxIndex, computed on their own from *)
(* the all_changed_objects of a transaction that changes up to             *)
(* MaxChangedObjects objects, each with an owner of any kind.              *)
(***************************************************************************)
Addresses == {"a1", "a2"}

\* Owner: an ObjectOwner's address is the id of the parent object
Owners ==
    [kind : {"AddressOwner", "ObjectOwner"}, address : Addresses]
        \cup [kind : {"Shared", "Immutable"}, address : {"none"}]

\* the all_changed_objects of a transaction: the i-th entry is object i
ChangedObjectLists ==
    UNION { { [i \in 1..n |-> [object_ref |-> i, owner |-> o[i]]] : o \in [1..n -> Owners] }
              : n \in 0..MaxChangedObjects }

InitRecipients ==
    /\ PipelineAtStart(FALSE)
    /\ \E changed \in ChangedObjectLists :
           applied = [fn |-> "recipients", input |-> changed, output |-> {}]

index_recipients ==
    /\ applied.fn = "recipients"
    /\ applied.output = {}
    /\ applied' = [applied EXCEPT !.output = { recipients(applied.input) }]
    /\ UNCHANGED <<ledger, stream, next_checkpoint, checkpoint_starting_tx_seq_numbers,
                   object_cache, handler, channel, committer, store, skip_db_commit,
                   restarts, store_failures, trace>>

NextRecipients == index_recipients

SpecRecipients == InitRecipients /\ [][NextRecipients]_vars

(***************************************************************************)
(* SpecLatest: get_latest_objects, computed on its own from a list of up   *)
(* to MaxListedObjects snapshots of the objects of the chain, in any order *)
(* and with any repeats.                                                   *)
(***************************************************************************)
ListedObjects ==
    UNION { [1..n -> { ObjectRef(id, v) : id \in ObjectIds, v \in 1..MaxListedVersion }]
              : n \in 0..MaxListedObjects }

InitLatest ==
    /\ PipelineAtStart(FALSE)
    /\ \E objects \in ListedObjects :
           applied = [fn |-> "get_latest_objects", input |-> objects, output |-> {}]

latest_objects_of_checkpoint ==
    /\ applied.fn = "get_latest_objects"
    /\ applied.output = {}
    /\ applied' = [applied EXCEPT !.output = { get_latest_objects(applied.input) }]
    /\ UNCHANGED <<ledger, stream, next_checkpoint, checkpoint_starting_tx_seq_numbers,
                   object_cache, handler, channel, committer, store, skip_db_commit,
                   restarts, store_failures, trace>>

NextLatest == latest_objects_of_checkpoint

SpecLatest == InitLatest /\ [][NextLatest]_vars

(***************************************************************************)
(* SpecCache: the object cache on its own, under up to MaxInserts calls of *)
(* insert_object with snapshots of the objects of the chain at versions    *)
(* 1..MaxListedVersion, in any order; applied.input is the list of the     *)
(* snapshots inserted so far.                                              *)
(***************************************************************************)
InitCache ==
    /\ PipelineAtStart(FALSE)
    /\ applied = [fn |-> "insert_object", input |-> << >>, output |-> {}]

cache_insert_object ==
    /\ applied.fn = "insert_object"
    /\ Len(applied.input) < MaxInserts
    /\ \E id \in ObjectIds, v \in 1..MaxListedVersion :
           /\ object_cache' = insert_object(object_cache, ObjectRef(id, v))
           /\ applied' = [applied EXCEPT !.input = Append(@, ObjectRef(id, v))]
    /\ UNCHANGED <<ledger, stream, next_checkpoint, checkpoint_starting_tx_seq_numbers,
                   handler, channel, committer, store, skip_db_commit, restarts,
                   store_failures, trace>>

NextCache == cache_insert_object

SpecCache == InitCache /\ [][NextCache]_vars

(***************************************************************************)
(* The Mutex around the InMemObjectCache.  Each caller of the cache is a   *)
(* task; applied.guard is the task that holds the MutexGuard, an Option.   *)
(* A task is at "lock" before object_cache.lock(), at "held" with the      *)
(* guard, at "store_read", "rpc" or "backup" while it reads the Store, the *)
(* full node or the Store's module cache.                                  *)
(***************************************************************************)
LockTasks == {"t1", "t2"}

\* the object the tasks ask for
LockedIds == {"A"}

TaskIdle ==
    [op |-> "none", pc |-> "idle", stmt |-> 0, id |-> "none", version |-> 0,
     objects |-> << >>, module |-> {}, result |-> {}]

\* the Store the tasks read: nothing, or a row of the object and the package
LockStores ==
    { [PgIndexerStoreV2_new EXCEPT !.objects = objs, !.packages = pkgs] :
        objs \in { {}, { [object_id |-> "A", object_version |-> 1, df_info |-> {},
                          checkpoint_sequence_number |-> 0] } },
        pkgs \in { {}, { [package_id |-> p] : p \in PackageIds } } }

InitLock ==
    /\ ledger = GenesisLedger
    /\ stream = << >>
    /\ next_checkpoint = 0
    /\ checkpoint_starting_tx_seq_numbers = {}
    /\ object_cache \in { InMemObjectCache_new,
                          InterimModuleResolver_new(InMemObjectCache_new,
                              << [package_id |-> CHOOSE p \in PackageIds : TRUE] >>) }
    /\ handler = HandlerIdle
    /\ channel = << >>
    /\ committer = CommitterWaiting
    /\ store \in LockStores
    /\ skip_db_commit = FALSE
    /\ restarts = 0
    /\ store_failures = 0
    /\ trace = TraceAtStart
    /\ applied = [fn |-> "lock", guard |-> {}, tasks |-> [t \in LockTasks |-> TaskIdle]]

LockUnchanged ==
    UNCHANGED <<ledger, stream, next_checkpoint, checkpoint_starting_tx_seq_numbers,
                handler, channel, committer, store, skip_db_commit, restarts,
                store_failures, trace>>

\* a task enters get_object, find_object_lt_or_eq_version, TxChangesProcessor::new or
\* get_module_by_id
lock_call(t) ==
    /\ applied.fn = "lock"
    /\ applied.tasks[t].pc = "idle"
    /\ \E task \in
           { [TaskIdle EXCEPT !.op = op, !.pc = "lock", !.stmt = 1,
                              !.id = id, !.version = v] :
               op \in {"get_object", "find_object_lt_or_eq_version"},
               id \in LockedIds, v \in 1..MaxCachedVersion }
           \cup { [TaskIdle EXCEPT !.op = "TxChangesProcessor_new", !.pc = "lock",
                                   !.stmt = 1, !.objects = objs] :
                    objs \in { << ObjectRef(id, 1) >> : id \in LockedIds }
                             \cup { << ObjectRef(id, v), ObjectRef(id, v + 1) >> :
                                      id \in LockedIds, v \in 1..(MaxCachedVersion - 1) } }
           \cup { [TaskIdle EXCEPT !.op = "get_module_by_id", !.pc = "lock", !.stmt = 1,
                                   !.module = { [package |-> p, name |-> n] }] :
                    p \in PackageIds, n \in ModuleNames } :
           applied' = [applied EXCEPT !.tasks[t] = task]
    /\ UNCHANGED object_cache
    /\ LockUnchanged

\* object_cache.lock().unwrap(): the task has the guard once no task holds it
lock_acquire(t) ==
    /\ applied.fn = "lock"
    /\ applied.tasks[t].pc = "lock"
    /\ applied.guard = {}
    /\ applied' = [applied EXCEPT !.guard = {t}, !.tasks[t].pc = "held"]
    /\ UNCHANGED object_cache
    /\ LockUnchanged

\* the statement that took the guard runs to its end: the map operation, and the drop
\* of the guard where the temporary's scope ends
lock_statement(t) ==
    /\ applied.fn = "lock"
    /\ applied.tasks[t].pc = "held"
    /\ LET task == applied.tasks[t]
           exact == get(object_cache, task.id, {task.version})
           latest == { o \in get(object_cache, task.id, {}) : o.version <= task.version }
           cached == UNION { InMemObjectCache_get_module_by_id(object_cache, m) :
                               m \in task.module }
       IN  CASE task.op = "get_object" ->
                   \* lines 910-913: a let statement, the guard is dropped at its end
                   /\ applied' = [applied EXCEPT
                          !.guard = {},
                          !.tasks[t].result = exact,
                          !.tasks[t].pc = IF exact # {} THEN "done" ELSE "store_read"]
                   /\ UNCHANGED object_cache
             [] task.op = "find_object_lt_or_eq_version" /\ task.stmt = 1 ->
                   \* lines 952-955
                   /\ applied' = [applied EXCEPT
                          !.guard = {},
                          !.tasks[t].result = exact,
                          !.tasks[t].stmt = IF exact # {} THEN 1 ELSE 2,
                          !.tasks[t].pc = IF exact # {} THEN "done" ELSE "lock"]
                   /\ UNCHANGED object_cache
             [] task.op = "find_object_lt_or_eq_version" /\ task.stmt = 2 ->
                   \* lines 961-969
                   /\ applied' = [applied EXCEPT
                          !.guard = {},
                          !.tasks[t].result = latest,
                          !.tasks[t].pc = IF latest # {} THEN "done" ELSE "store_read"]
                   /\ UNCHANGED object_cache
             [] task.op = "TxChangesProcessor_new" ->
                   \* lines 834-836: one statement for each object
                   /\ object_cache' = insert_object(object_cache, Head(task.objects))
                   /\ applied' = [applied EXCEPT
                          !.guard = {},
                          !.tasks[t].objects = Tail(task.objects),
                          !.tasks[t].pc = IF Tail(task.objects) = << >>
                                          THEN "done" ELSE "lock"]
             [] OTHER ->
                   \* indexer_store_v2.rs lines 293-299: the guard is a temporary of the
                   \* scrutinee of the if let, it lives to the end of the else block
                   /\ applied' = [applied EXCEPT
                          !.guard = IF cached # {} THEN {} ELSE {t},
                          !.tasks[t].result = cached,
                          !.tasks[t].pc = IF cached # {} THEN "done" ELSE "backup"]
                   /\ UNCHANGED object_cache
    /\ LockUnchanged

\* self.state.get_object(..).await
lock_store_read(t) ==
    /\ applied.fn = "lock"
    /\ applied.tasks[t].pc = "store_read"
    /\ LET task == applied.tasks[t]
           stored == store_get_object(store, task.id,
                         IF task.op = "get_object" THEN {task.version} ELSE {})
       IN  applied' = [applied EXCEPT
               !.tasks[t].result = stored,
               !.tasks[t].pc = IF task.op = "get_object" /\ stored = {}
                               THEN "rpc" ELSE "done"]
    /\ UNCHANGED object_cache
    /\ LockUnchanged

\* try_get_parsed_past_object(..).await
lock_rpc_read(t) ==
    /\ applied.fn = "lock"
    /\ applied.tasks[t].pc = "rpc"
    /\ applied' = [applied EXCEPT
           !.tasks[t].result = try_get_parsed_past_object(stream, applied.tasks[t].id,
                                                          applied.tasks[t].version),
           !.tasks[t].pc = "done"]
    /\ UNCHANGED object_cache
    /\ LockUnchanged

\* self.backup.get_module_by_id(id), the else block of the if let
lock_backup_read(t) ==
    /\ applied.fn = "lock"
    /\ applied.tasks[t].pc = "backup"
    /\ applied' = [applied EXCEPT
           !.guard = @ \ {t},
           !.tasks[t].result = UNION { module_cache_get_module_by_id(store, m) :
                                         m \in applied.tasks[t].module },
           !.tasks[t].pc = "done"]
    /\ UNCHANGED object_cache
    /\ LockUnchanged

lock_return(t) ==
    /\ applied.fn = "lock"
    /\ applied.tasks[t].pc = "done"
    /\ applied' = [applied EXCEPT !.tasks[t] = TaskIdle]
    /\ UNCHANGED object_cache
    /\ LockUnchanged

NextLock ==
    \E t \in LockTasks :
        \/ lock_call(t)
        \/ lock_acquire(t)
        \/ lock_statement(t)
        \/ lock_store_read(t)
        \/ lock_rpc_read(t)
        \/ lock_backup_read(t)
        \/ lock_return(t)

SpecLock == InitLock /\ [][NextLock]_vars

(***************************************************************************)
(* Properties.  What the chain produced is in stream and ledger, what the  *)
(* handler and the commit task did is in trace, the batch the handler has  *)
(* just built is in handler.checkpoint.                                    *)
(***************************************************************************)
\* the number of transactions of the checkpoints before checkpoint c
RECURSIVE TxsBefore(_)
TxsBefore(c) == IF c = 0 THEN 0 ELSE TxsBefore(c - 1) + Len(stream[c].transactions)

\* the checkpoint the handler has just indexed and is about to send
EmittedBatches == IF handler.pc = "send" THEN handler.checkpoint ELSE {}

DataOf(batch) == stream[batch.checkpoint.sequence_number + 1]

\* C1: the transaction at index idx of checkpoint C is given the sequence number
\* t_0 + ... + t_(C-1) + idx, so that the numbers of checkpoints 0..N are exactly
\* 0 .. t_0 + ... + t_N - 1, each assigned once and none skipped
C1_GapFreeTxSequenceNumbers ==
    \A a \in trace.assigned : a.tx_sequence_number = TxsBefore(a.checkpoint) + a.index

\* C8: the sequence numbers are strictly increasing in (checkpoint sequence number,
\* index in the checkpoint), and a transaction indexed again gets the number it had
C8_StrictlyIncreasingTxSequenceNumbers ==
    \A a, b \in trace.assigned :
        /\ (a.checkpoint = b.checkpoint /\ a.index = b.index)
               => a.tx_sequence_number = b.tx_sequence_number
        /\ (\/ a.checkpoint < b.checkpoint
            \/ (a.checkpoint = b.checkpoint /\ a.index < b.index))
               => a.tx_sequence_number < b.tx_sequence_number

\* two checkpoints of two transactions each have been numbered, the second one after
\* a restart, from the store's checkpoint row
C8_Witness ==
    /\ restarts > 0
    /\ checkpoint_starting_tx_seq_numbers # {}
    /\ \A c \in 0..1, i \in 0..1 :
           \E a \in trace.assigned : a.checkpoint = c /\ a.index = i
    /\ \A e \in checkpoint_starting_tx_seq_numbers : e.key # 1


\* the sequence numbers of a sequence of batches
SequenceNumbers(batches) == Map(batches, LAMBDA b : b.checkpoint.sequence_number)

\* the digests of the transactions of the checkpoints of a round, in order
RoundDigests(round) ==
    Flatten(Map(round, LAMBDA c :
        [i \in 1..Len(stream[c + 1].transactions) |-> TransactionDigest(c, i - 1)]))

RECURSIVE Sum(_)
Sum(s) == IF s = << >> THEN 0 ELSE Head(s) + Sum(Tail(s))

\* C2: a checkpoint row is in the Store only when the five persist calls of its round
\* have returned success: while one of them has not, no checkpoint of the round has
\* its row, and the rows of a checkpoint that has its row are all in the Store
C2_CheckpointRowAfterPersistedData ==
    /\ (/\ committer.pc \in {"persist", "dead"}
        /\ \E k \in PersistCalls : committer.done[k] # "Ok")
           => \A i \in 1..Len(committer.checkpoint_batch) :
                  \A row \in store.checkpoints :
                      row.sequence_number # committer.checkpoint_batch[i].sequence_number
    /\ \A row \in store.checkpoints :
           LET c == row.sequence_number
               txs == stream[c + 1].transactions
           IN  /\ Cardinality({ t \in store.transactions :
                                  t.checkpoint_sequence_number = c }) = Len(txs)
               /\ Cardinality({ x \in store.tx_indices :
                                  x.transaction_digest.checkpoint = c }) = Len(txs)
               /\ Cardinality({ e \in store.events : e.tx_digest.checkpoint = c })
                      = Sum(Map(txs, LAMBDA t : t.events))
               /\ \A o \in Range(stream[c + 1].objects) :
                      is_package(o) => [package_id |-> o.id] \in store.packages

\* a persist call has failed, the process has restarted, and both checkpoints have
\* their rows
C2_Witness ==
    /\ store_failures > 0
    /\ restarts > 0
    /\ Cardinality(store.checkpoints) = 2

\* C3: when the process stops between the concurrent persistence step and
\* persist_checkpoints and restarts with an empty cache and an empty map, indexing the
\* checkpoints fed again does not abort in get_object or find_object_lt_or_eq_version
\* and gives every transaction the sequence number it had
C3_ReplayAfterCrashSucceeds ==
    trace.stopped_before_fence =>
        /\ handler.cause \notin {"ObjectNotFoundPanic", "VersionAssertPanic",
                                 "StartingTxSeqPanic"}
        /\ \A a, b \in trace.assigned :
               (a.checkpoint = b.checkpoint /\ a.index = b.index)
                   => a.tx_sequence_number = b.tx_sequence_number

C5_DeletionDominance ==
    \A b \in EmittedBatches :
        \A i \in 1..Len(DataOf(b).transactions) :
            LET fx == DataOf(b).transactions[i]
            IN  \A oref \in Range(deleted(fx)) \cup Range(wrapped(fx))
                              \cup Range(unwrapped_then_deleted(fx)) :
                    /\ \A k \in 1..Len(b.object_changes.changed_objects) :
                           LET o == b.object_changes.changed_objects[k]
                           IN  ~(o.object_id = oref.id /\ o.object_version = oref.version)
                    /\ oref \in Range(b.object_changes.deleted_objects)

\* a batch for a checkpoint that wraps one object and writes another
C5_Witness ==
    \E b \in EmittedBatches :
        /\ b.object_changes.changed_objects # << >>
        /\ \E i \in 1..Len(DataOf(b).transactions) : DataOf(b).transactions[i].op = "wrap"

\* C6: when a checkpoint mutates an object to version v and later deletes or wraps it
\* at a version above v, the batch has no changed object (id, v) and has the deleted
\* object (id, v')
C6_DeleteSupersedesMutation ==
    \A b \in EmittedBatches :
        LET txs == DataOf(b).transactions
            co == b.object_changes.changed_objects
        IN  \A i, j \in 1..Len(txs) :
                (/\ i < j
                 /\ txs[i].op = "mutate"
                 /\ txs[j].op \in {"delete", "wrap"}
                 /\ txs[i].id = txs[j].id
                 /\ txs[i].version < txs[j].version)
                    => /\ \A k \in 1..Len(co) :
                              ~(co[k].object_id = txs[i].id
                                /\ co[k].object_version = txs[i].version)
                       /\ ObjectRef(txs[j].id, txs[j].version)
                              \in Range(b.object_changes.deleted_objects)

\* the objects table of a Store that has followed the chain: a row for every live
\* object, at the version it was last written
ChainObjects ==
    { [object_id |-> id, object_version |-> ledger[id].version] :
        id \in { i \in DOMAIN ledger : ledger[i].st = "live" } }

\* every checkpoint of the chain has been committed, each on its own
AllCommitted ==
    /\ Quiescent
    /\ next_checkpoint = Len(stream)
    /\ \A c \in 1..Len(stream) :
           \E row \in store.checkpoints : row.sequence_number = c - 1

\* C7: after a checkpoint is committed on its own the objects table has, for every id
\* the checkpoint touched, a row at the highest written version when the last change
\* is a write (an unwrap after a wrap included) and no row when it is a delete or a
\* wrap, the other rows being unchanged
C7_ObjectsTableFollowsCheckpoints ==
    AllCommitted =>
        { [object_id |-> r.object_id, object_version |-> r.object_version] :
            r \in store.objects } = ChainObjects

\* C9: the batches enter the channel in strictly increasing checkpoint sequence
\* order and the commit task receives them in that order
C9_ChannelIsFifo ==
    /\ \A i, j \in 1..Len(trace.sent) : i < j => trace.sent[i] < trace.sent[j]
    /\ \A i, j \in 1..Len(trace.received) : i < j => trace.received[i] < trace.received[j]
    /\ Len(trace.received) <= Len(trace.sent)
    /\ \A i \in 1..Len(trace.received) : trace.received[i] = trace.sent[i]

\* the commit task has received two batches
C9_Witness == Len(trace.received) = 2 /\ Len(trace.sent) = 2

\* C10: a batch that was sent is in the channel or was taken from it, once; a batch
\* taken is in one round, whose persist calls get its rows; with skip_db_commit the
\* batches taken are dropped
C10_BatchConsumedExactlyOnce ==
    /\ trace.sent = trace.received \o SequenceNumbers(channel)
    /\ ~skip_db_commit => Flatten(trace.rounds) = trace.received
    /\ skip_db_commit => trace.rounds = << >> /\ committer = CommitterWaiting
    /\ committer.pc = "persist" =>
           LET round == trace.rounds[Len(trace.rounds)]
           IN  /\ Map(committer.checkpoint_batch, LAMBDA c : c.sequence_number) = round
               /\ Map(committer.tx_batch, LAMBDA t : t.tx_digest) = RoundDigests(round)
               /\ Map(committer.tx_indices_batch, LAMBDA x : x.transaction_digest)
                      = RoundDigests(round)
               /\ Len(committer.object_changes_batch) = Len(round)
               /\ Len(committer.events_batch)
                      = Sum(Map(round, LAMBDA c :
                                Sum(Map(stream[c + 1].transactions, LAMBDA t : t.events))))

\* the commit task is persisting a round of two batches
C10_Witness ==
    /\ committer.pc = "persist"
    /\ trace.rounds # << >>
    /\ Len(trace.rounds[Len(trace.rounds)]) = 2


\* C11: the channel never holds more than the configured queue size, and a send
\* completes, so that process_checkpoint returns, only when the channel holds fewer
\* batches than that: on a full channel not before the commit task has taken some
C11_ChannelIsBounded ==
    /\ [](Len(channel) <= QueueSize)
    /\ [][(handler.pc = "send" /\ handler'.pc = "idle" /\ restarts' = restarts)
              => (Len(channel) < QueueSize /\ Len(channel') = Len(channel) + 1)]_vars

\* the handler has a batch to send and the channel is full
C11_Witness == handler.pc = "send" /\ Len(channel) = QueueSize

\* a step of process_checkpoint that got past the starting sequence number: the
\* checkpoint it indexed is stream'[next_checkpoint + 1], its reads are trace'.reads
ProcessCheckpointStep ==
    /\ handler.pc = "idle"
    /\ committer' = committer /\ channel' = channel /\ restarts' = restarts
    /\ handler'.cause # "StartingTxSeqPanic"

\* the reads of the latest process_checkpoint made with fn
ReadsOf(t, fn) == { r \in Range(t.reads) : r.fn = fn }

\* C12: get_object answers from the cache when the cache has the version, asks the
\* Store only on a cache miss and the full node only when both miss; what the Store
\* or the full node returned is neither inserted into the cache nor written to the
\* Store: the cache gains the checkpoint's objects and nothing else
C12_GetExactTierOrder ==
    [][ProcessCheckpointStep =>
          /\ store' = store
          /\ object_cache'.seq_map =
                 object_cache.seq_map \cup Range(stream'[next_checkpoint + 1].objects)
          /\ \A r \in ReadsOf(trace', "get_object") :
                 LET cached == get(object_cache', r.id, {r.version})
                     stored == store_get_object(store, r.id, {r.version})
                 IN  /\ r.tier = "cache" <=> cached # {}
                     /\ r.tier = "store" <=> (cached = {} /\ stored # {})
                     /\ r.tier = "rpc" <=> (cached = {} /\ stored = {})
                     /\ r.tier = "cache" => r.object = cached
                     /\ r.tier = "store" => r.object = stored
                     /\ r.tier # "cache" => r.object \cap object_cache'.seq_map = {}]_vars

\* get_object has missed the cache and has been answered by the Store
C12_Witness ==
    \E r \in ReadsOf(trace, "get_object") : r.tier = "store" /\ r.res = "Ok"

\* C13: find_object_lt_or_eq_version never asks the full node, and every object it
\* returns has the requested id and a version not above the requested one: the exact
\* version when the cache has it, else the cache's latest when that is not above the
\* request, else the Store's latest
C13_GetLeNeverAboveRequest ==
    [][ProcessCheckpointStep =>
          \A r \in ReadsOf(trace', "find_object_lt_or_eq_version") :
              LET exact == get(object_cache', r.id, {r.version})
                  latest == get(object_cache', r.id, {})
                  stored == store_get_object(store, r.id, {})
              IN  /\ r.tier \in {"cache", "store"}
                  /\ r.res = "Ok" =>
                        /\ r.object # {}
                        /\ \A o \in r.object : o.id = r.id /\ o.version <= r.version
                        /\ r.object = IF exact # {} THEN exact
                                      ELSE IF \E o \in latest : o.version <= r.version
                                           THEN latest
                                      ELSE stored
                        /\ r.tier = "store" <=>
                              (exact = {} /\ ~(\E o \in latest : o.version <= r.version))]_vars

\* the cache holds only a later version of the object, and
\* find_object_lt_or_eq_version has been answered by the Store
C13_Witness ==
    \E r \in ReadsOf(trace, "find_object_lt_or_eq_version") :
        /\ r.res = "Ok" /\ r.tier = "store"
        /\ \E o \in get(object_cache, r.id, {}) : o.version > r.version

\* the object versions listed in the checkpoints this process has handed to change
\* processing
HandedObjects == UNION { Range(stream[c + 1].objects) : c \in trace.handed }

\* C14: whatever the commit task has persisted so far, get_object answers from the
\* cache, without the Store and the full node, for every object version listed in a
\* checkpoint this process has handed to change processing
C14_HandedVersionsAreCached ==
    /\ \A o \in HandedObjects :
          LET r == get_object(object_cache, store, stream, FALSE, o.id, o.version)
          IN  r.res = "Ok" /\ r.tier = "cache" /\ r.object = { o }
    /\ \A r \in ReadsOf(trace, "get_object") :
          ObjectRef(r.id, r.version) \in HandedObjects => r.tier = "cache"

\* two checkpoints have been handed over, get_object has been asked for a version
\* of the earlier one and the Store does not hold that version
C14_Witness ==
    /\ Cardinality(trace.handed) >= 2
    /\ \E r \in ReadsOf(trace, "get_object") :
          /\ r.tier = "cache"
          /\ store_get_object(store, r.id, {r.version}) = {}

\* the checkpoints of the chain that are the last of their epoch
LastCheckpointsOf(epoch) ==
    { c \in 0..(Len(stream) - 1) :
        stream[c + 1].epoch = epoch /\ stream[c + 1].end_of_epoch_data # {} }

\* network_total_transactions of the last checkpoint of the epoch before `epoch`, 0
\* when `epoch` is the first
TotalBeforeEpoch(epoch) ==
    IF epoch = 0 THEN 0
    ELSE stream[(CHOOSE c \in LastCheckpointsOf(epoch - 1) : TRUE) + 1].network_total_transactions

\* C17: the IndexedEndOfEpochInfo emitted for an end-of-epoch checkpoint C that closes
\* epoch N has epoch = N and epoch_total_transactions = network_total_transactions(C)
\* minus network_total_transactions of the last checkpoint of epoch N - 1 (0 for the
\* first epoch), and the subtraction does not underflow
C17_EpochTotalTransactions ==
    \A x \in trace.epochs : \A e \in x.index.last_epoch :
        LET data == stream[x.checkpoint + 1]
        IN  /\ e.epoch = data.epoch
            /\ e.epoch_total_transactions >= 0
            /\ e.epoch_total_transactions =
                   data.network_total_transactions - TotalBeforeEpoch(data.epoch)

\* C18: once the checkpoint an epoch record was computed for has been committed, the
\* Store holds a row for the epoch the record opens, and the row of the epoch it
\* closes carries the end-of-epoch info and the total transaction count
C18_EpochRecordsAreDurable ==
    \A x \in trace.epochs :
        (\E c \in store.checkpoints : c.sequence_number = x.checkpoint) =>
            /\ \E r \in store.epochs : r.epoch = x.index.new_epoch.epoch
            /\ \A e \in x.index.last_epoch :
                  \E r \in store.epochs :
                      /\ r.epoch = e.epoch
                      /\ r.end_of_epoch_info # {}
                      /\ r.epoch_total_transactions = e.epoch_total_transactions

\* the packages the checkpoint lists
PackagesOf(data) == { o.id : o \in { x \in Range(data.objects) : is_package(x) } }

\* C15: the resolver made for a checkpoint has put every module of every package the
\* checkpoint lists into the object cache before it answers; get_module_by_id returns
\* the cached module when the cache has it and asks the fallback only on a miss, so
\* that a module of a package published in the checkpoint resolves from the cache
\* whatever the packages table holds
C15_ModulesResolveFromCache ==
    [][(ProcessCheckpointStep /\ handler'.pc = "send") =>
          LET data == stream'[next_checkpoint + 1]
          IN  /\ \A p \in PackagesOf(data) : \A e \in serialized_module_map(p) :
                     InMemObjectCache_get_module_by_id(
                         object_cache', [package |-> p, name |-> e.module_name]) = { e.module }
              /\ \A i \in 1..Len(trace'.lookups) :
                     LET l == trace'.lookups[i]
                         cached == InMemObjectCache_get_module_by_id(object_cache', l.id)
                     IN  /\ l.tier = "cache" <=> cached # {}
                         /\ l.tier = "cache" => l.module = cached
                         /\ l.tier = "backup" =>
                               l.module = module_cache_get_module_by_id(store, l.id)
                         /\ l.id.package \in PackagesOf(data) =>
                               (l.tier = "cache" /\ l.module # {})]_vars

\* a dynamic field and the package of its type are written in one checkpoint: the
\* module has been resolved from the cache and the packages table does not hold the
\* package
C15_Witness ==
    /\ handler.pc = "send"
    /\ \E b \in handler.checkpoint : b.packages # << >>
    /\ \E i \in 1..Len(trace.lookups) :
          /\ trace.lookups[i].tier = "cache"
          /\ trace.lookups[i].module # {}
          /\ module_cache_get_module_by_id(store, trace.lookups[i].id) = {}

\* C16: in a commit round the package rows of the batch are in the Store before any
\* transaction, event, tx-index or object row of the batch is
C16_PackagesAreDurableFirst ==
    committer.pc = "persist" =>
        ((\/ \E r \in Range(committer.tx_batch) : r \in store.transactions
          \/ \E r \in Range(committer.events_batch) : r \in store.events
          \/ \E r \in Range(committer.tx_indices_batch) : r \in store.tx_indices
          \/ \E c \in Range(committer.object_changes_batch) :
                 \E r \in Range(c.changed_objects) : r \in store.objects)
            => \A r \in Range(committer.packages_batch) : r \in store.packages)

\* the process has restarted with an empty cache: the module of a dynamic field has
\* been resolved by the fallback, from the packages table
C15_FallbackWitness ==
    \E i \in 1..Len(trace.lookups) :
        trace.lookups[i].tier = "backup" /\ trace.lookups[i].module # {}

\* C19: each of the six Store writes, applied twice in succession to the input of
\* the commit round, leaves the Store as applying it once does; the append-only
\* tables keep the rows they had
C19_StoreWritesAreIdempotent ==
    committer.pc = "persist" =>
        LET c == committer
            checkpoints == persist_checkpoints(store, c.checkpoint_batch)
            transactions == persist_transactions(store, c.tx_batch)
            tx_indices == persist_tx_indices(store, c.tx_indices_batch)
            events == persist_events(store, c.events_batch)
            packages == persist_packages(store, c.packages_batch)
            object_changes == persist_object_changes(store, c.object_changes_batch)
        IN  /\ persist_checkpoints(checkpoints, c.checkpoint_batch) = checkpoints
            /\ persist_transactions(transactions, c.tx_batch) = transactions
            /\ persist_tx_indices(tx_indices, c.tx_indices_batch) = tx_indices
            /\ persist_events(events, c.events_batch) = events
            /\ persist_packages(packages, c.packages_batch) = packages
            /\ persist_object_changes(object_changes, c.object_changes_batch) = object_changes
            /\ store.checkpoints \subseteq checkpoints.checkpoints
            /\ store.transactions \subseteq transactions.transactions
            /\ store.tx_indices \subseteq tx_indices.tx_indices
            /\ store.events \subseteq events.events
            /\ store.packages \subseteq packages.packages

\* a commit round with rows of every kind, a deleted object among them, has made its
\* five concurrent writes
C19_Witness ==
    /\ committer.pc = "persist"
    /\ \A k \in PersistCalls : committer.done[k] = "Ok"
    /\ committer.events_batch # << >>
    /\ committer.packages_batch # << >>
    /\ \E i \in 1..Len(committer.object_changes_batch) :
          committer.object_changes_batch[i].changed_objects # << >>
    /\ \E i \in 1..Len(committer.object_changes_batch) :
          committer.object_changes_batch[i].deleted_objects # << >>

\* C20: with skip_db_commit the commit task issues no Store write, it only takes
\* chunks from the channel, and it keeps taking them: a send of the handler, on a
\* full channel too, completes
C20_SkipDbCommitOnlyDrains ==
    /\ [][skip_db_commit => (store' = store /\ committer' = CommitterWaiting)]_vars
    /\ (skip_db_commit /\ handler.pc = "send") ~> (handler.pc = "idle")

\* with skip_db_commit the commit task has taken one batch more than the channel
\* holds, and the Store has no row
C20_Witness ==
    /\ skip_db_commit
    /\ Len(trace.received) = QueueSize + 1
    /\ store = PgIndexerStoreV2_new

\* the position of the first entry of `changed` that an address owns as AddressOwner
FirstOwned(changed, address) ==
    CHOOSE i \in 1..Len(changed) :
        /\ changed[i].owner = [kind |-> "AddressOwner", address |-> address]
        /\ \A j \in 1..(i - 1) :
               changed[j].owner # [kind |-> "AddressOwner", address |-> address]

\* C21: the recipients of a transaction are exactly the addresses that own an entry
\* of its all_changed_objects as AddressOwner, each once, in the order of their
\* first entries; the owners of the other kinds are not among them
C21_RecipientsAreUniqueInOrder ==
    \A out \in applied.output :
        LET changed == applied.input
        IN  /\ Range(out) = { changed[i].owner.address :
                                i \in { k \in 1..Len(changed) :
                                           changed[k].owner.kind = "AddressOwner" } }
            /\ \A i, j \in 1..Len(out) : out[i] = out[j] => i = j
            /\ \A i, j \in 1..Len(out) :
                   i < j => FirstOwned(changed, out[i]) < FirstOwned(changed, out[j])

\* the recipients of a transaction whose changed objects have an address as owner
\* twice and another address between the two
C21_Witness ==
    /\ applied.fn = "recipients"
    /\ \E out \in applied.output : Len(out) = 2
    /\ \E i, j, k \in 1..Len(applied.input) :
           /\ i < j /\ j < k
           /\ applied.input[i].owner.kind = "AddressOwner"
           /\ applied.input[j].owner.kind = "AddressOwner"
           /\ applied.input[i].owner # applied.input[j].owner
           /\ applied.input[k].owner = applied.input[i].owner

\* the snapshot of the highest version a checkpoint lists of an object, an Option
LatestListed(data, id) ==
    { o \in Range(data.objects) :
        o.id = id /\ \A x \in Range(data.objects) : x.id = id => x.version <= o.version }

\* C22: the DynamicFieldInfo of a dynamic object field that a batch carries names
\* the object the field points at, with the version, digest and type of the latest
\* snapshot the same checkpoint lists of that object; when the checkpoint does not
\* list the object, whatever the object cache holds, the handler panics and there is
\* no batch, so no IndexedObject of the field
C22_DynamicObjectInfoFromWrittenObjects ==
    /\ [](\A b \in EmittedBatches :
             LET co == b.object_changes.changed_objects
             IN  \A i \in 1..Len(co) :
                     /\ co[i].object_id \in ObjectFieldIds => co[i].df_info # {}
                     /\ \A info \in co[i].df_info :
                            info.type_ = "DynamicObject" =>
                                /\ info.object_id = pointed_object_id(co[i].object_id)
                                /\ \E o \in LatestListed(DataOf(b), info.object_id) :
                                       /\ info.version = o.version
                                       /\ info.digest = ObjectDigest(o)
                                       /\ info.object_type = ObjectType(o.id))
    /\ [][(ProcessCheckpointStep /\ handler'.pc # "idle") =>
              LET data == stream'[next_checkpoint + 1]
                  refs == changed_object_refs(data)
              IN  (\E i \in 1..Len(refs) :
                       /\ refs[i].id \in ObjectFieldIds
                       /\ LatestListed(data, pointed_object_id(refs[i].id)) = {})
                      => (handler'.pc = "panicked" /\ handler'.checkpoint = {})]_vars

\* a batch carries the info of a dynamic object field whose object the checkpoint has
\* written at a version above the one an earlier checkpoint wrote
C22_Witness ==
    \E b \in EmittedBatches :
        \E i \in 1..Len(b.object_changes.changed_objects) :
            \E info \in b.object_changes.changed_objects[i].df_info :
                /\ info.type_ = "DynamicObject"
                /\ info.version > 1
                /\ \E o \in object_cache.seq_map :
                       o.id = info.object_id /\ o.version < info.version

\* the handler has panicked on a dynamic object field whose object the checkpoint
\* does not list and the object cache holds
C22_AbortWitness ==
    /\ handler.cause = "DynamicFieldInfoPanic"
    /\ \E o \in object_cache.id_map : o.id \in { pointed_object_id(w) : w \in ObjectFieldIds }
    /\ LatestListed(stream[Len(stream)], "A") = {}

C23_FullNodeWitness ==
    /\ 1 \in trace.failed
    /\ \E r \in Range(trace.reads) : r.tier = "rpc" /\ r.res = "Ok"

\* the number of events of the first n transactions of a checkpoint
RECURSIVE EventsBefore(_, _)
EventsBefore(txs, n) == IF n = 0 THEN 0 ELSE EventsBefore(txs, n - 1) + txs[n].events

\* C24: in the batch of a checkpoint with starting sequence number S, the transaction
\* at index i has the IndexedTransaction row, the TxIndex row and the event rows of
\* number S + i, in the order of the checkpoint's transactions, and its event rows
\* have the event indices 0, 1, ... in the order of its events
C24_RowsCarrySequenceNumberByIndex ==
    \A b \in EmittedBatches :
        LET c == b.checkpoint.sequence_number
            txs == DataOf(b).transactions
        IN  \A S \in current_checkpoint_starting_tx_seq(
                         checkpoint_starting_tx_seq_numbers, store, c) :
                /\ Len(b.transactions) = Len(txs)
                /\ Len(b.tx_indices) = Len(txs)
                /\ Len(b.events) = EventsBefore(txs, Len(txs))
                /\ \A i \in 1..Len(txs) :
                       /\ b.transactions[i].tx_sequence_number = S + (i - 1)
                       /\ b.transactions[i].tx_digest = TransactionDigest(c, i - 1)
                       /\ b.transactions[i].transaction = txs[i]
                       /\ b.tx_indices[i].tx_sequence_number = S + (i - 1)
                       /\ b.tx_indices[i].transaction_digest = TransactionDigest(c, i - 1)
                       /\ \A e \in 1..txs[i].events :
                              b.events[EventsBefore(txs, i - 1) + e] =
                                  [tx_sequence_number |-> S + (i - 1),
                                   event_sequence_number |-> e - 1,
                                   tx_digest |-> TransactionDigest(c, i - 1)]

\* the batch of a checkpoint after the first, of two transactions with events each
C24_Witness ==
    \E b \in EmittedBatches :
        /\ b.checkpoint.sequence_number > 0
        /\ Len(b.transactions) = 2
        /\ \A i \in 1..2 : DataOf(b).transactions[i].events > 1
        /\ current_checkpoint_starting_tx_seq(
               checkpoint_starting_tx_seq_numbers, store, b.checkpoint.sequence_number) # {}

(***************************************************************************)
(* The starting transaction sequence number of a checkpoint.               *)
(***************************************************************************)
\* a step of process_checkpoint on the checkpoint next_checkpoint, whatever its outcome
StartingTxSeqStep ==
    /\ handler.pc = "idle"
    /\ committer' = committer /\ channel' = channel /\ restarts' = restarts
    /\ applied' = applied

\* the read that failed in the attempt the trace describes, if one did
FailedReads(t) == { r \in Range(t.reads) : r.res \notin Panics \cup {"Ok"} }

\* C25: on receiving checkpoint C, process_checkpoint records in the in-memory map the
\* entry (C + 1) -> network_total_transactions of C plus 1 and leaves the other keys
\* alone; the transactions of C are then numbered from 0 when C = 0, from the entry the
\* map holds for C when it holds one, and otherwise from the Store's
\* network_total_transactions of checkpoint C - 1 plus 1; when C = 0 or the map holds
\* an entry for C the Store is not read for it: the outcome is the one an empty Store
\* gives, and a Store that cannot be read fails the call only through a read of an object
C25_StartingTxSeqIsRecordedAndDetermined ==
    [][StartingTxSeqStep =>
        LET C == next_checkpoint
            data == stream'[C + 1]
            in_memory == map_get(checkpoint_starting_tx_seq_numbers, C)
            stored == { r.network_total_transactions :
                          r \in { x \in store.checkpoints : x.sequence_number = C - 1 } }
            expected == IF C = 0 THEN { 0 }
                        ELSE IF in_memory # {} THEN in_memory
                        ELSE { v + 1 : v \in stored }
            first_assigned == { a.tx_sequence_number :
                                  a \in { x \in trace'.assigned :
                                            x.checkpoint = C /\ x.index = 0 } }
        IN  /\ map_get(checkpoint_starting_tx_seq_numbers', C + 1)
                   = { data.network_total_transactions + 1 }
            /\ \A k \in 0..(MaxCheckpoint + 2) :
                   k # C + 1 => map_get(checkpoint_starting_tx_seq_numbers', k)
                                    = map_get(checkpoint_starting_tx_seq_numbers, k)
            /\ first_assigned \subseteq expected
            /\ (handler'.pc = "send" /\ data.transactions # << >>)
                   => first_assigned = expected
            /\ (C = 0 \/ in_memory # {}) =>
                   /\ handler'.cause # "StartingTxSeqPanic"
                   /\ current_checkpoint_starting_tx_seq(
                          checkpoint_starting_tx_seq_numbers', store, C)
                      = current_checkpoint_starting_tx_seq(
                            checkpoint_starting_tx_seq_numbers', PgIndexerStoreV2_new, C)
                   /\ (C \in trace'.failed /\ handler' = HandlerIdle)
                          => FailedReads(trace') # {}]_vars

\* after a restart emptied the map, checkpoint 1 was numbered from the Store's row of
\* checkpoint 0; the map holds the entry of checkpoint 2 and none of checkpoint 1
C25_Witness ==
    /\ restarts > 0
    /\ 1 \in trace.handed
    /\ map_get(checkpoint_starting_tx_seq_numbers, 1) = {}
    /\ map_get(checkpoint_starting_tx_seq_numbers, 2) # {}
    /\ \E r \in store.checkpoints : r.sequence_number = 0
    /\ \E a \in trace.assigned : a.checkpoint = 1 /\ a.index = 0

\* C26: when checkpoint C > 0 has no entry in the in-memory map and the Store has no
\* checkpoint row for C - 1, process_checkpoint panics: the step assigns no sequence
\* number, builds no batch and sends nothing, and while the handler is stopped on that
\* panic no batch of C has been sent by this process or is in the channel
C26_MissingStartingTxSeqIsFatal ==
    /\ [][(/\ StartingTxSeqStep
           /\ next_checkpoint > 0
           /\ map_get(checkpoint_starting_tx_seq_numbers, next_checkpoint) = {}
           /\ \A r \in store.checkpoints : r.sequence_number # next_checkpoint - 1)
          => /\ handler' = HandlerPanicked("StartingTxSeqPanic")
             /\ trace'.assigned = trace.assigned
             /\ trace'.sent = trace.sent
             /\ trace'.handed = trace.handed
             /\ next_checkpoint' = next_checkpoint]_vars
    /\ [](handler.cause = "StartingTxSeqPanic" =>
            /\ handler.pc = "panicked" /\ handler.checkpoint = {}
            /\ next_checkpoint \notin Range(trace.sent)
            /\ \A i \in 1..Len(channel) :
                   channel[i].checkpoint.sequence_number # next_checkpoint)

\* the provider resumed at checkpoint 1 while the Store had no row of checkpoint 0, and
\* the handler stopped on the panic
C26_Witness ==
    /\ handler = HandlerPanicked("StartingTxSeqPanic")
    /\ restarts > 0
    /\ next_checkpoint = 1
    /\ map_get(checkpoint_starting_tx_seq_numbers, 1) = {}
    /\ \A r \in store.checkpoints : r.sequence_number # 0

(***************************************************************************)
(* The latest objects of a checkpoint.                                     *)
(***************************************************************************)
\* the highest version a list holds of an object
MaxVersionOf(objects, id) ==
    CHOOSE v \in { o.version : o \in { x \in Range(objects) : x.id = id } } :
        \A o \in Range(objects) : o.id = id => o.version <= v

\* the list holds the versions of every object in ascending order
Ascending(objects) ==
    \A i, j \in 1..Len(objects) :
        (i < j /\ objects[i].id = objects[j].id) => objects[i].version <= objects[j].version

\* get_latest_objects keeps, for each object id of the list, the snapshot of the
\* highest version the list holds of it, whatever the order of the list
LatestObjectsAreMaxVersions ==
    \A out \in applied.output :
        out.latest_objects =
            { o \in Range(applied.input) : o.version = MaxVersionOf(applied.input, o.id) }

\* on a list that holds the versions of every object in ascending order, the
\* discarded versions are the snapshots below the highest version of their object
DiscardedOfAscendingList ==
    \A out \in applied.output :
        Ascending(applied.input) =>
            out.discarded_versions =
                { o \in Range(applied.input) :
                    o.version < MaxVersionOf(applied.input, o.id) }

\* C27: for every list of objects, in every order, get_latest_objects returns a map
\* that holds for each object id the snapshot of the maximum version of that id, and a
\* discarded set that is exactly the (id, version) pairs of the list whose version is
\* lower than the maximum version of their id
C27_LatestAndDiscardedForEveryOrdering ==
    \A out \in applied.output :
        /\ out.latest_objects =
               { o \in Range(applied.input) : o.version = MaxVersionOf(applied.input, o.id) }
        /\ out.discarded_versions =
               { o \in Range(applied.input) : o.version < MaxVersionOf(applied.input, o.id) }

(***************************************************************************)
(* The changed objects of a checkpoint and its effects.                    *)
(***************************************************************************)
\* the (id, version) pairs the all_changed_objects of a checkpoint's transactions name
ChangedRefs(data) == Range(Flatten(Map(data.transactions, all_changed_objects)))

\* the entries of the effects that are not deleted by the checkpoint and that the
\* checkpoint's objects do not hold: the id is absent, or there at other versions only
MissingRefs(data) ==
    { oref \in ChangedRefs(data) :
        /\ oref \notin Range(Flatten(Map(data.transactions, get_deleted_objects)))
        /\ oref \notin get_latest_objects(data.objects).discarded_versions
        /\ \A o \in Range(data.objects) : ~(o.id = oref.id /\ o.version = oref.version) }

\* C28: every row of a batch's changed_objects has the id and the version of an entry
\* of the all_changed_objects of a transaction of the batch's checkpoint and carries
\* the checkpoint's sequence number; a checkpoint whose effects name an entry that is
\* neither discarded nor deleted and that the checkpoint's objects lack, or hold at
\* other versions only, yields no batch: process_checkpoint panics on it, unless a read
\* for an earlier step of the same call failed first
C28_IndexedObjectsMatchEffects ==
    /\ [](\A b \in EmittedBatches :
            /\ \A i \in 1..Len(b.object_changes.changed_objects) :
                   LET row == b.object_changes.changed_objects[i]
                   IN  /\ ObjectRef(row.object_id, row.object_version)
                              \in ChangedRefs(DataOf(b))
                       /\ row.checkpoint_sequence_number = DataOf(b).sequence_number
            /\ MissingRefs(DataOf(b)) = {})
    /\ [][(StartingTxSeqStep /\ MissingRefs(stream'[next_checkpoint + 1]) # {})
          => /\ handler'.checkpoint = {}
             /\ trace'.sent = trace.sent
             /\ \/ handler'.cause \in {"NotInCheckpointDataPanic", "VersionMismatchPanic"}
                \/ handler'.cause \in {"StartingTxSeqPanic", "ObjectNotFoundPanic",
                                       "VersionAssertPanic", "SystemEpochInfoEventPanic"}
                \/ handler' = HandlerIdle /\ FailedReads(trace') # {}]_vars

\* the handler stopped on a checkpoint whose objects lack an object its effects
\* changed: the object is not found in the CheckpointData
C28_Witness ==
    /\ handler = HandlerPanicked("NotInCheckpointDataPanic")
    /\ next_checkpoint < Len(stream)
    /\ \E oref \in MissingRefs(stream[next_checkpoint + 1]) :
           \A o \in Range(stream[next_checkpoint + 1].objects) : o.id # oref.id

\* the handler stopped on a checkpoint whose objects hold the changed object at
\* another version only
C28_VersionWitness ==
    /\ handler = HandlerPanicked("VersionMismatchPanic")
    /\ next_checkpoint < Len(stream)
    /\ \E oref \in MissingRefs(stream[next_checkpoint + 1]) :
           \E o \in Range(stream[next_checkpoint + 1].objects) : o.id = oref.id

\* a batch with a row, of a checkpoint whose effects changed an object twice
C28_RowWitness ==
    \E b \in EmittedBatches :
        /\ b.object_changes.changed_objects # << >>
        /\ Cardinality(ChangedRefs(DataOf(b))) = 2

(***************************************************************************)
(* The epoch records.                                                      *)
(***************************************************************************)
\* the epoch records index_epoch has returned for checkpoint c, as the trace t has them
EpochRecordsOf(t, c) == { x.index : x \in { e \in t.epochs : e.checkpoint = c } }

\* a step of process_checkpoint that indexed the checkpoint next_checkpoint
IndexedStep == StartingTxSeqStep /\ handler'.pc = "send"

\* C29: index_epoch returns an epoch record exactly for checkpoint 0 and for the
\* checkpoints that carry the end-of-epoch marker; the record of checkpoint 0 is the
\* genesis record, with no closed epoch, epoch 0 and first_checkpoint_id 0, also when
\* checkpoint 0 carries the marker, and it is made without reading the Store: it is the
\* same on an empty Store and on a Store that cannot be read
C29_EpochRecordAtGenesisAndEndOfEpoch ==
    /\ [][IndexedStep =>
            LET C == next_checkpoint
                data == stream'[C + 1]
                records == EpochRecordsOf(trace', C)
            IN  /\ records # {} <=> (C = 0 \/ data.end_of_epoch_data # {})
                /\ Cardinality(records) <= 1
                /\ C = 0 =>
                       records = { [last_epoch |-> {},
                                    new_epoch |-> [epoch |-> 0,
                                                   first_checkpoint_id |-> { 0 },
                                                   epoch_total_transactions |-> 0,
                                                   end_of_epoch_info |-> {}]] }
                /\ (C # 0 /\ data.end_of_epoch_data # {}) =>
                       \A r \in records : r.last_epoch # {}]_vars
    /\ [](\A i \in 1..Len(stream) :
            stream[i].sequence_number = 0 =>
                /\ index_epoch(store, stream[i]) = index_epoch(PgIndexerStoreV2_new, stream[i])
                /\ index_epoch(store, stream[i])
                       = index_epoch([store EXCEPT !.up = FALSE], stream[i]))

\* checkpoint 0 carries the end-of-epoch marker and has been indexed with the genesis
\* record, and the Store holds rows by the time the record is looked at
C29_Witness ==
    /\ Len(stream) >= 1
    /\ stream[1].end_of_epoch_data # {}
    /\ EpochRecordsOf(trace, 0) # {}
    /\ \A r \in EpochRecordsOf(trace, 0) : r.last_epoch = {}
    /\ store.checkpoints # {}

\* a checkpoint after the first has been indexed without a record, and another after
\* the first, which carries the marker, with one
C29_LaterWitness ==
    \E c, d \in 1..(Len(stream) - 1) :
        /\ c \in trace.handed /\ d \in trace.handed
        /\ stream[c + 1].end_of_epoch_data = {} /\ EpochRecordsOf(trace, c) = {}
        /\ stream[d + 1].end_of_epoch_data # {} /\ EpochRecordsOf(trace, d) # {}

\* the checkpoints after the first that carry the end-of-epoch marker
EndOfEpochCheckpoints ==
    { c \in 1..(Len(stream) - 1) : stream[c + 1].end_of_epoch_data # {} }

\* C30: for a checkpoint C > 0 that carries the end-of-epoch marker and whose system
\* state names epoch N, index_epoch returns one record with both halves: the closed
\* epoch, with epoch N - 1 and last_checkpoint_id C, and the opened epoch, with epoch
\* N, first_checkpoint_id C + 1, no end-of-epoch info and no transactions counted;
\* when no event of the checkpoint is a SystemEpochInfoEvent there is never a record
\* for C, and process_checkpoint sends nothing and panics on it, unless an earlier
\* step of the same call panicked or failed first
C30_EndOfEpochRecords ==
    /\ [](\A c \in EndOfEpochCheckpoints :
            LET data == stream[c + 1]
            IN  /\ ~data.system_epoch_info_event => EpochRecordsOf(trace, c) = {}
                /\ \A r \in EpochRecordsOf(trace, c) : \A s \in data.system_state :
                       /\ Cardinality(r.last_epoch) = 1
                       /\ \A e \in r.last_epoch :
                              e.epoch = s.epoch - 1 /\ e.last_checkpoint_id = c
                       /\ r.new_epoch = [epoch |-> s.epoch,
                                         first_checkpoint_id |-> { c + 1 },
                                         epoch_total_transactions |-> 0,
                                         end_of_epoch_info |-> {}])
    /\ [][(IndexedStep /\ next_checkpoint > 0
              /\ stream'[next_checkpoint + 1].end_of_epoch_data # {})
          => /\ EpochRecordsOf(trace', next_checkpoint) # {}
             /\ stream'[next_checkpoint + 1].system_epoch_info_event]_vars
    /\ [][(StartingTxSeqStep /\ next_checkpoint > 0
              /\ stream'[next_checkpoint + 1].end_of_epoch_data # {}
              /\ ~stream'[next_checkpoint + 1].system_epoch_info_event)
          => /\ handler'.checkpoint = {}
             /\ trace'.sent = trace.sent
             /\ \/ handler'.cause = "SystemEpochInfoEventPanic"
                \/ handler'.cause \in {"StartingTxSeqPanic", "ObjectNotFoundPanic",
                                       "VersionAssertPanic"}
                \/ handler' = HandlerIdle /\ FailedReads(trace') # {}]_vars

\* the handler stopped on a checkpoint after the first that carries the end-of-epoch
\* marker and no SystemEpochInfoEvent
C30_Witness ==
    /\ handler = HandlerPanicked("SystemEpochInfoEventPanic")
    /\ next_checkpoint \in EndOfEpochCheckpoints
    /\ ~stream[next_checkpoint + 1].system_epoch_info_event
    /\ EpochRecordsOf(trace, next_checkpoint) = {}

\* checkpoint 1 closes epoch 0 and has been indexed with both halves of the record
C30_RecordWitness ==
    /\ handler.pc = "send"
    /\ next_checkpoint = 1
    /\ 1 \in EndOfEpochCheckpoints
    /\ stream[1].end_of_epoch_data = {}
    /\ \E r \in EpochRecordsOf(trace, 1) :
           /\ \E e \in r.last_epoch : e.epoch = 0
           /\ r.new_epoch.epoch = 1 /\ r.new_epoch.first_checkpoint_id = { 2 }

(***************************************************************************)
(* The read of the previous epoch's total and the commit task.             *)
(***************************************************************************)
\* C31: whatever the commit task has persisted by the time the handler indexes an
\* end-of-epoch checkpoint C > 0 of epoch N, get_network_total_transactions_previous_epoch
\* gives index_epoch the network_total_transactions of the last checkpoint of epoch
\* N - 1 (0 when N is the first epoch), so that the epoch_total_transactions of the
\* record is the same for every interleaving of the handler and the commit task
C31_PreviousEpochTotalInEveryInterleaving ==
    [][(IndexedStep /\ next_checkpoint > 0
           /\ stream'[next_checkpoint + 1].end_of_epoch_data # {})
       => LET data == stream'[next_checkpoint + 1]
          IN  /\ get_network_total_transactions_previous_epoch(store, data.epoch)
                     = TotalBeforeEpoch(data.epoch)
              /\ \A r \in EpochRecordsOf(trace', next_checkpoint) :
                     \A e \in r.last_epoch :
                         e.epoch_total_transactions =
                             data.network_total_transactions
                             - TotalBeforeEpoch(data.epoch)]_vars

(***************************************************************************)
(* The rounds of the commit task.                                          *)
(***************************************************************************)
\* a step in which the commit task takes batches out of the channel
TakeChunkStep == trace'.received # trace.received

\* the smaller of two numbers
Min(a, b) == IF a < b THEN a ELSE b

\* C32: a round of the commit task handles at least one and at most BatchSize
\* batches; they are the batches at the head of the channel, in the channel's order,
\* as many as are there up to BatchSize, and the rest stays in the channel; the task
\* takes a chunk whenever it waits and the channel holds a batch, however few
C32_RoundTakesReadyBatchesUpToBatchSize ==
    /\ [](\A i \in 1..Len(trace.rounds) :
            Len(trace.rounds[i]) >= 1 /\ Len(trace.rounds[i]) <= BatchSize)
    /\ []((committer.pc = "wait" /\ channel # << >>) => ENABLED commit_task_next_chunk)
    /\ [][TakeChunkStep =>
            LET n == Len(trace'.received) - Len(trace.received)
            IN  /\ committer.pc = "wait"
                /\ n = Min(Len(channel), BatchSize) /\ n >= 1
                /\ SubSeq(trace'.received, Len(trace.received) + 1, Len(trace'.received))
                       = [i \in 1..n |-> channel[i].checkpoint.sequence_number]
                /\ channel' = SubSeq(channel, n + 1, Len(channel))
                /\ ~skip_db_commit =>
                       /\ committer'.pc = "persist"
                       /\ committer'.checkpoint_batch = [i \in 1..n |-> channel[i].checkpoint]
                       /\ trace'.rounds = Append(trace.rounds,
                              [i \in 1..n |-> channel[i].checkpoint.sequence_number])]_vars

\* with BatchSize above one, a round of one batch has been followed by a round of
\* two batches
C32_Witness ==
    /\ BatchSize >= 2
    /\ ~skip_db_commit
    /\ \E i, j \in 1..Len(trace.rounds) :
           i < j /\ Len(trace.rounds[i]) = 1 /\ Len(trace.rounds[j]) = 2

\* one of the five persist calls of the round under way has returned an error
RoundFailed(c) == c.pc = "persist" /\ \E k \in PersistCalls : c.done[k] = "Err"

\* C33: when one of the five concurrent persist calls of a round returns an error the
\* commit task writes no checkpoint row for the round and stops once the five have
\* returned, and when persist_checkpoints returns an error it stops at once; a task
\* that has stopped takes no batch and writes nothing to the Store
C33_CommitTaskStopsOnStoreError ==
    /\ [][(store_failures' # store_failures)
          => \/ RoundFailed(committer') /\ store' = store
             \/ /\ committer.pc = "persist" /\ all_persisted(committer)
                /\ committer'.pc = "dead" /\ store' = store]_vars
    /\ [][(RoundFailed(committer) /\ restarts' = restarts)
          => /\ store'.checkpoints = store.checkpoints
             /\ RoundFailed(committer') \/ committer'.pc = "dead"
             /\ committer'.checkpoint_batch = committer.checkpoint_batch]_vars
    /\ [][(committer.pc = "dead" /\ restarts' = restarts)
          => /\ committer' = committer
             /\ store' = store
             /\ channel' = channel
             /\ trace'.rounds = trace.rounds /\ trace'.received = trace.received]_vars

\* the commit task stopped on a round of which one call failed after another had
\* written its rows, and the Store has no checkpoint row of the round
C33_Witness ==
    /\ committer.pc = "dead"
    /\ \E k \in PersistCalls : committer.done[k] = "Err"
    /\ \E k \in PersistCalls : committer.done[k] = "Ok"
    /\ store.transactions # {} \/ store.objects # {}
    /\ \A i \in 1..Len(committer.checkpoint_batch) :
           \A r \in store.checkpoints :
               r.sequence_number # committer.checkpoint_batch[i].sequence_number

\* the commit task stopped on persist_checkpoints: the five calls had succeeded
C33_FenceWitness ==
    /\ committer.pc = "dead"
    /\ all_persisted(committer)
    /\ store_failures > 0

(***************************************************************************)
(* The object cache.                                                       *)
(***************************************************************************)
\* the positions of the list of inserted snapshots that hold a snapshot of id
InsertsOf(inserted, id) == { i \in 1..Len(inserted) : inserted[i].id = id }

\* the last element of a non-empty set of numbers
Last(positions) == CHOOSE i \in positions : \A j \in positions : j <= i

\* C34: after any sequence of insert_object calls, get(id, None) is the snapshot of
\* the most recent call for that id, whatever its version, and nothing for an id that
\* was never inserted; get(id, Some(v)) is the snapshot inserted for (id, v), for
\* every (id, v) ever inserted; every id_map entry is also a seq_map entry; and an
\* insert_object removes no key of either map
C34_CacheHoldsLastInsertAndEveryVersion ==
    /\ [](applied.fn = "insert_object" =>
            LET inserted == applied.input
            IN  /\ \A id \in ObjectIds :
                       get(object_cache, id, {}) =
                           IF InsertsOf(inserted, id) = {} THEN {}
                           ELSE { inserted[Last(InsertsOf(inserted, id))] }
                /\ \A i \in 1..Len(inserted) :
                       get(object_cache, inserted[i].id, { inserted[i].version })
                           = { inserted[i] }
                /\ \A id \in ObjectIds, v \in 1..MaxListedVersion :
                       get(object_cache, id, { v }) # {} =>
                           \E i \in 1..Len(inserted) : inserted[i] = ObjectRef(id, v)
                /\ \A o \in object_cache.id_map :
                       get(object_cache, o.id, { o.version }) = { o })
    /\ [][applied.fn = "insert_object" =>
            /\ \A o \in object_cache.seq_map :
                   get(object_cache', o.id, { o.version }) # {}
            /\ \A o \in object_cache.id_map : get(object_cache', o.id, {}) # {}]_vars

\* an object was inserted at a version, then at a lower one, then another object: the
\* id_map holds the lower version and the seq_map both
C34_Witness ==
    /\ applied.fn = "insert_object"
    /\ Len(applied.input) = 3
    /\ applied.input[1].id = applied.input[2].id
    /\ applied.input[1].version > applied.input[2].version
    /\ applied.input[3].id # applied.input[1].id
    /\ get(object_cache, applied.input[1].id, {}) = { applied.input[2] }

\* C35: at every point of a run, for every object id that has an id_map entry in the
\* object cache and a row in the Store's objects table, the version of the cache's
\* entry is at least the version of the row, and it is the highest version of that id
\* the cache has been given
C35_CachedLatestNotBelowStore ==
    \A o \in object_cache.id_map :
        /\ \A r \in store.objects : r.object_id = o.id => o.version >= r.object_version
        /\ \A x \in object_cache.seq_map : x.id = o.id => x.version <= o.version

\* the half of C35 about the versions the cache has been given
CachedLatestIsHighestGiven ==
    \A o \in object_cache.id_map :
        \A x \in object_cache.seq_map : x.id = o.id => x.version <= o.version

(***************************************************************************)
(* persist_object_changes on the object changes of several checkpoints.    *)
(***************************************************************************)
\* the Store after the object changes of the checkpoints of a round have been
\* committed one checkpoint at a time, in the order of the round
RECURSIVE PersistedOneAtATime(_, _)
PersistedOneAtATime(st, object_changes_batch) ==
    IF object_changes_batch = << >> THEN st
    ELSE PersistedOneAtATime(persist_object_changes(st, << Head(object_changes_batch) >>),
                             Tail(object_changes_batch))

\* a step in which the persist_object_changes call of a round completes
PersistObjectChangesStep ==
    /\ committer.pc = "persist"
    /\ committer.done["object_changes"] = "pending"
    /\ restarts' = restarts
    /\ committer'.pc = "wait" \/ committer'.done["object_changes"] = "Ok"

\* C37: the persist_object_changes call of a round leaves the objects table as
\* committing the object changes of the round's checkpoints one checkpoint at a time
\* in checkpoint order would: per object id the last change of the round wins
C37_BatchedObjectChangesAsOneAtATime ==
    [][PersistObjectChangesStep =>
          store'.objects =
              PersistedOneAtATime(store, committer.object_changes_batch).objects]_vars

\* a round of one checkpoint, and a round of two checkpoints that write the same
\* object, leave the table as committing one at a time does
BatchedAsOneAtATimeWithoutRemoval ==
    [][(PersistObjectChangesStep
           /\ \A i \in 1..Len(committer.object_changes_batch) :
                  \A j \in 1..Len(committer.object_changes_batch) :
                      i < j => committer.object_changes_batch[i].deleted_objects = << >>)
       => store'.objects =
              PersistedOneAtATime(store, committer.object_changes_batch).objects]_vars

(***************************************************************************)
(* The lock of the object cache.                                           *)
(***************************************************************************)
IOStates == {"store_read", "rpc", "backup"}

\* C36: no task holds the guard of the object cache while it reads the Store, the
\* full node or the Store's module cache: in get_object, find_object_lt_or_eq_version,
\* TxChangesProcessor::new and the module resolver the guard is dropped first
C36_LockNotHeldDuringIO ==
    applied.fn = "lock" =>
        \A t \in LockTasks : applied.tasks[t].pc \in IOStates => t \notin applied.guard

\* the same for the calls of the ObjectProvider and of TxChangesProcessor::new
ObjectReadsDropTheLockFirst ==
    applied.fn = "lock" =>
        \A t \in LockTasks :
            (applied.tasks[t].pc \in IOStates /\ applied.tasks[t].op # "get_module_by_id")
                => t \notin applied.guard

\* a task waits for the guard while its holder reads the Store's module cache
BlockedBehindBackupRead ==
    /\ applied.fn = "lock"
    /\ \E t, u \in LockTasks :
           /\ applied.tasks[t].pc = "backup" /\ t \in applied.guard
           /\ applied.tasks[u].pc = "lock"

(***************************************************************************)
(* The order of the checkpoint rows.                                       *)
(***************************************************************************)
CheckpointRows == { r.sequence_number : r \in store.checkpoints }

ContiguousRows == \A c \in CheckpointRows : c > 0 => (c - 1) \in CheckpointRows

\* the checkpoints of the rounds the commit task took before the one it is in
EarlierRounds ==
    UNION { Range(trace.rounds[i]) : i \in 1..(Len(trace.rounds) - 1) }

\* C38: the checkpoint rows of the Store form a contiguous range at every point; the
\* row of checkpoint C+1 is never written before the row of C is in the Store; and a
\* round writes to the Store only after persist_checkpoints of the rounds before it
\* has completed
C38_CheckpointRowsAreContiguous ==
    /\ [](ContiguousRows)
    /\ [][\A c \in CheckpointRows' \ CheckpointRows :
              c > 0 => (c - 1) \in CheckpointRows']_vars
    /\ [][[store EXCEPT !.up = TRUE] # [store' EXCEPT !.up = TRUE]
              => /\ committer.pc = "persist"
                 /\ EarlierRounds \subseteq CheckpointRows]_vars

\* the commit task is writing its second round, the row of the first is in the Store
C38_Witness ==
    /\ Len(trace.rounds) = 2
    /\ committer.pc = "persist"
    /\ \E k \in PersistCalls : committer.done[k] = "Ok"
    /\ CheckpointRows = {0}

\* a round of two checkpoints has written both rows
C38_RoundWitness ==
    /\ Len(trace.rounds) = 1
    /\ Len(trace.rounds[1]) = 2
    /\ CheckpointRows = {0, 1}

(***************************************************************************)
(* The two sources of a checkpoint's starting tx sequence number.          *)
(***************************************************************************)
\* C39: for a checkpoint C > 0 whose predecessor has its row in the Store, the starting
\* tx sequence number the in-memory map gives is the one the Store fallback gives, and
\* the numbers a process assigns to the transactions of C are the ones every earlier
\* process assigned to them
C39_MapAndStoreGiveTheSameStart ==
    /\ \A e \in checkpoint_starting_tx_seq_numbers :
           (e.key > 0 /\ (e.key - 1) \in CheckpointRows) =>
               current_checkpoint_starting_tx_seq(
                   checkpoint_starting_tx_seq_numbers, store, e.key)
               = current_checkpoint_starting_tx_seq({}, store, e.key)
    /\ \A a \in trace.assigned : \A b \in trace.assigned :
           (a.checkpoint = b.checkpoint /\ a.index = b.index)
               => a.tx_sequence_number = b.tx_sequence_number

\* the map holds the entry of checkpoint 1 and the Store the row of checkpoint 0
C39_Witness ==
    /\ map_get(checkpoint_starting_tx_seq_numbers, 1) # {}
    /\ 0 \in CheckpointRows
    /\ \E a \in trace.assigned : a.checkpoint = 1

\* a process had numbered and written the transactions of checkpoint 1 and stopped
\* before its row; the next process has numbered them again, from the Store
C39_RestartWitness ==
    /\ restarts = 1
    /\ handler.pc = "send"
    /\ \E b \in handler.checkpoint : b.checkpoint.sequence_number = 1
    /\ map_get(checkpoint_starting_tx_seq_numbers, 1) = {}
    /\ \E r \in store.transactions : r.checkpoint_sequence_number = 1
    /\ CheckpointRows = {0}

(***************************************************************************)
(* Progress of the commit task.                                            *)
(***************************************************************************)
SentCheckpoints == Range(trace.sent)

\* C40: with db commits on and every Store write succeeding, under fair scheduling of
\* the commit task every batch the handler has sent eventually has its checkpoint row
\* in the Store, whether or not another checkpoint arrives; once the sender is dropped
\* the commit task commits the batches that are queued and then ends, and it ends in no
\* other way
C40_SentBatchesAreEventuallyCommitted ==
    /\ \A c \in 0..AheadChain.checkpoints :
           (c \in SentCheckpoints) ~> (c \in CheckpointRows)
    /\ (handler.pc = "dropped")
           ~> (committer.pc = "done" /\ channel = << >>
               /\ SentCheckpoints \subseteq CheckpointRows)
    /\ [](committer.pc = "done"
             => /\ handler.pc = "dropped"
                /\ channel = << >>
                /\ SentCheckpoints \subseteq CheckpointRows)

\* the sender was dropped with two batches queued, the commit task has committed them
\* and ended
C40_Witness ==
    /\ committer.pc = "done"
    /\ Len(trace.rounds) = 1
    /\ Len(trace.rounds[1]) = 2
    /\ Len(trace.sent) = 2
    /\ CheckpointRows = {0, 1}

\* the sender is dropped while the commit task has batches to take
C40_DropWitness ==
    /\ handler.pc = "dropped"
    /\ committer.pc = "wait"
    /\ Len(channel) = 2
====
